---- MODULE Spec2Model ----
(***************************************************************************)
(* Contact intelligence pipeline of act-placemat:                          *)
(*   scripts/research-contact-enrichment.py      RateLimiter, CacheManager,*)
(*                                               research_single_contact   *)
(*   scripts/strategic-contact-scoring.py        scoring and categorising  *)
(*   scripts/consolidate-youth-justice-contacts.py  remove_duplicates      *)
(* Each component has its own specification over the shared variables; a   *)
(* specification leaves the variables of the other components alone.       *)
(***************************************************************************)
EXTENDS Integers, Sequences, FiniteSets, TLC

VARIABLES
    comp,               \* which component this behaviour exercises
    clock,              \* time.time() / datetime.now(), in the unit of the component
    minute_requests,    \* RateLimiter.minute_requests
    hour_requests,      \* RateLimiter.hour_requests
    cache_files,        \* CacheManager: the files of cache_dir, by file name
    last_set,           \* per key, the most recent call set(key, content) and how it ended
    last_op,            \* the CacheManager call that produced this state
    get_key,            \* the key of the most recent get
    get_ret,            \* what the most recent get returned
    dd_input,           \* deduplication: the raw records, in input order
    dd_algo,            \* which of the two deduplications ran
    dd_stage,           \* "input", "once", "twice" or "permuted"
    dd_out,             \* the records surviving the first run
    dd_again,           \* the records surviving a run on dd_out
    dd_perm,            \* a permutation of dd_input
    dd_perm_out,        \* the records surviving a run on dd_perm
    contacts_df,        \* process_contacts: the consolidated rows
    scores_data,        \* process_contacts: the scored and categorized rows so far
    score_vector,       \* categorize_contact: the ContactScore passed in
    strategy,           \* categorize_contact: the EngagementStrategy returned
    config,             \* ContactResearchOrchestrator.config
    contact_data,       \* research_single_contact: the contact record
    research_pc,        \* "idle", "ready", a section of the try block, "returned" or "raised"
    enrichment,         \* what research_single_contact returned or raised
    source_outcomes,    \* what the research sources answer for this contact
    sources_invoked,    \* history: the sources called for this contact, in order
    enrichment_ctor,    \* process_csv_file: how ContactEnrichment's list fields are declared
    csv_rows,           \* process_csv_file: the rows of the input DataFrame
    csv_index,          \* process_csv_file: the rows iterated so far
    enriched_contacts,  \* process_csv_file: enriched_contacts
    temp_file,          \* the checkpoint file temp_<output_csv>
    output_file,        \* the file output_csv
    csv_pc,             \* "idle", "start", "loop", "returned", "read_failed", "exit", "interrupted"
    csv_log,            \* what the run logged and printed
    lk_cache,           \* lookups: the cache directory the sources share, by key
    net_calls,          \* lookups: history of the network attempts made
    lk_last,            \* lookups: the last lookup, what it found cached and returned
    key_store,          \* cache keys: which lookup wrote each cache file
    key_read,           \* cache keys: the last lookup that read, and whose value it got
    existing_df,        \* merge_contacts: the rows loaded from the master CSV
    new_profiles,       \* merge_contacts: the e-mails of the new ContactProfiles
    merged_df,          \* merge_contacts: the frame returned
    merge_pc,           \* "idle", "ready", "merged" or "raised"
    rl_pc,              \* wait_if_needed by steps: "idle", the statement to run next, or "returned"
    rl_now,             \* wait_if_needed by steps: `now` of the current call
    rl_wake,            \* wait_if_needed by steps: when the current sleep ends
    rl_checks,          \* history: the limit checks the current call has made
    rl_slept,           \* history: whether the current call has slept
    rl_calls,           \* history: the calls started
    cons_pc,            \* consolidate_all_files: the file processed next (6: loop done, 7: returned)
    all_contacts,       \* consolidate_all_files: all_contacts
    master_contacts,    \* YouthJusticeContactsConsolidator.master_contacts
    agent_status,       \* BaseAgent.status
    metrics,            \* BaseAgent.metrics: messages_processed and errors
    last_heartbeat,     \* BaseAgent.last_heartbeat
    pm_result           \* the last call of process_message: its message, what the handler did, what came back

rlVars == <<minute_requests, hour_requests>>
cacheVars == <<cache_files, last_set, last_op, get_key, get_ret>>
ddVars == <<dd_input, dd_algo, dd_stage, dd_out, dd_again, dd_perm, dd_perm_out>>
scVars == <<contacts_df, scores_data>>
catVars == <<score_vector, strategy>>
rsVars == <<config, contact_data, research_pc, enrichment, source_outcomes, sources_invoked>>
csvVars == <<enrichment_ctor, csv_rows, csv_index, enriched_contacts, temp_file, output_file,
             csv_pc, csv_log>>
lkVars == <<lk_cache, net_calls, lk_last>>
keyVars == <<key_store, key_read>>
mergeVars == <<existing_df, new_profiles, merged_df, merge_pc>>
stepVars == <<rl_pc, rl_now, rl_wake, rl_checks, rl_slept, rl_calls>>
consVars == <<cons_pc, all_contacts, master_contacts>>
agentVars == <<agent_status, metrics, last_heartbeat, pm_result>>
vars == <<comp, clock, rlVars, cacheVars, ddVars, scVars, catVars, rsVars, csvVars, lkVars, keyVars, mergeVars, stepVars, consVars, agentVars>>

\* What the actions of one component leave alone.
rlOthers == <<cacheVars, ddVars, scVars, catVars, rsVars, csvVars, lkVars, keyVars, mergeVars, stepVars, consVars, agentVars>>
cacheOthers == <<rlVars, ddVars, scVars, catVars, rsVars, csvVars, lkVars, keyVars, mergeVars, stepVars, consVars, agentVars>>
ddOthers == <<clock, rlVars, cacheVars, scVars, catVars, rsVars, csvVars, lkVars, keyVars, mergeVars, stepVars, consVars, agentVars>>
scOthers == <<clock, rlVars, cacheVars, ddVars, catVars, rsVars, csvVars, lkVars, keyVars, mergeVars, stepVars, consVars, agentVars>>
catOthers == <<clock, rlVars, cacheVars, ddVars, scVars, rsVars, csvVars, lkVars, keyVars, mergeVars, stepVars, consVars, agentVars>>
rsOthers == <<clock, rlVars, cacheVars, ddVars, scVars, catVars, csvVars, lkVars, keyVars, mergeVars, stepVars, consVars, agentVars>>
csvOthers == <<clock, rlVars, cacheVars, ddVars, scVars, catVars, lkVars, keyVars, mergeVars, stepVars, consVars, agentVars>>
lkOthers == <<cacheVars, ddVars, scVars, catVars, rsVars, csvVars, keyVars, mergeVars, stepVars, consVars, agentVars>>
keyOthers == <<clock, rlVars, cacheVars, ddVars, scVars, catVars, rsVars, csvVars, lkVars, mergeVars, stepVars, consVars, agentVars>>
mergeOthers == <<clock, rlVars, cacheVars, ddVars, scVars, catVars, rsVars, csvVars,
                  lkVars, keyVars, stepVars, consVars, agentVars>>
stepOthers == <<cacheVars, ddVars, scVars, catVars, rsVars, csvVars, lkVars,
                 keyVars, mergeVars, consVars, agentVars>>
consOthers == <<clock, rlVars, cacheVars, ddVars, scVars, catVars, rsVars, csvVars,
                 lkVars, keyVars, mergeVars, stepVars, agentVars>>
agentOthers == <<clock, rlVars, cacheVars, ddVars, scVars, catVars, rsVars, csvVars,
                  lkVars, keyVars, mergeVars, stepVars, consVars>>

(***************************************************************************)
(* Helpers                                                                 *)
(***************************************************************************)
SeqMin(s) == CHOOSE m \in {s[i] : i \in DOMAIN s} : \A i \in DOMAIN s : m <= s[i]

Range(s) == {s[i] : i \in DOMAIN s}

\* The permutations of 1..n, as sequences.
Perms(n) == {p \in [1..n -> 1..n] : \A i, j \in 1..n : i # j => p[i] # p[j]}

(***************************************************************************)
(* Python str operations, on TLA+ strings character by character.          *)
(***************************************************************************)
UpperChars == "ABCDEFGHIJKLMNOPQRSTUVWXYZ"
LowerChars == "abcdefghijklmnopqrstuvwxyz"
Whitespace == {" ", "\t", "\n", "\r"}

Char(s, i) == SubSeq(s, i, i)

UpperSet == {Char(UpperChars, i) : i \in 1..Len(UpperChars)}

LowerOf ==
    [c \in UpperSet |-> Char(LowerChars, CHOOSE i \in 1..Len(UpperChars) : Char(UpperChars, i) = c)]

LowerChar(c) == IF c \in UpperSet THEN LowerOf[c] ELSE c

RECURSIVE Lower(_)
\* str.lower(), one character at a time (halving keeps the recursion shallow)
Lower(s) ==
    IF Len(s) = 0 THEN ""
    ELSE IF Len(s) = 1 THEN LowerChar(s)
    ELSE LET half == Len(s) \div 2
         IN  Lower(SubSeq(s, 1, half)) \o Lower(SubSeq(s, half + 1, Len(s)))

\* str.strip()
Strip(s) ==
    LET keep == {i \in 1..Len(s) : Char(s, i) \notin Whitespace}
    IN  IF keep = {} THEN ""
        ELSE SubSeq(s, CHOOSE i \in keep : \A j \in keep : i <= j,
                       CHOOSE i \in keep : \A j \in keep : i >= j)

\* `k in s` for two strings
Contains(s, k) == \E i \in 1..(Len(s) - Len(k) + 1) : SubSeq(s, i, i + Len(k) - 1) = k

(***************************************************************************)
(* Python values, as far as json.dump / json.load tell them apart: a node  *)
(* has a type, a scalar value (strings and numbers, as text) and items.    *)
(***************************************************************************)
PyStr(s)   == [type |-> "str",   val |-> s,  items |-> <<>>]
PyNum(s)   == [type |-> "float", val |-> s,  items |-> <<>>]
PyList(xs) == [type |-> "list",  val |-> "", items |-> xs]
PyTuple(xs) == [type |-> "tuple", val |-> "", items |-> xs]
\* a dict as its key/value pairs in insertion order: <<k1, v1, k2, v2, ...>>
PyDict(kvs) == [type |-> "dict",  val |-> "", items |-> kvs]
None == [type |-> "NoneType", val |-> "", items |-> <<>>]

\* Nesting depth of the values the cache is given (a list of tuples of scalars).
MaxDepth == 3

RECURSIVE JsonDumpD(_, _)
\* json.dump: lists and tuples both become arrays, dicts objects.
JsonDumpD(v, d) ==
    IF d = 0 THEN v
    ELSE LET kids == [i \in DOMAIN v.items |-> JsonDumpD(v.items[i], d - 1)]
         IN  CASE v.type \in {"list", "tuple"} -> [type |-> "array", val |-> "", items |-> kids]
               [] v.type = "dict" -> [type |-> "object", val |-> "", items |-> kids]
               [] v.type = "NoneType" -> [type |-> "null", val |-> "", items |-> <<>>]
               [] v.type = "str" -> [type |-> "string", val |-> v.val, items |-> <<>>]
               [] OTHER -> [type |-> "number", val |-> v.val, items |-> <<>>]

JsonDump(v) == JsonDumpD(v, MaxDepth)

RECURSIVE JsonLoadD(_, _)
\* json.load: every array becomes a list, every object a dict.
JsonLoadD(j, d) ==
    IF d = 0 THEN j
    ELSE LET kids == [i \in DOMAIN j.items |-> JsonLoadD(j.items[i], d - 1)]
         IN  CASE j.type = "array" -> PyList(kids)
               [] j.type = "object" -> PyDict(kids)
               [] j.type = "null" -> None
               [] j.type = "string" -> PyStr(j.val)
               [] OTHER -> PyNum(j.val)

JsonLoad(j) == JsonLoadD(j, MaxDepth)

(***************************************************************************)
(* CacheManager (research-contact-enrichment.py:246-282). Time in hours.   *)
(***************************************************************************)
CacheKeys == {"https://www.abc.org.au", "hunter_abc.org.au_jane_doe"}

\* hashlib.md5(key.encode()).hexdigest() of the keys above, and the file name.
_get_cache_key(key) ==
    CASE key = "https://www.abc.org.au" -> "8e8ed0a727adc50411fee1f4390ba084"
      [] key = "hunter_abc.org.au_jane_doe" -> "ddc3e828a48a6df479db36763edecbf0"
      [] key = "https://www.abc.com.au" -> "b532a3e59796d71cd44985bc03543c96"
      [] key = "hunter_abc.org.au_Mary_Ann_Lee" -> "c62fd05794cb3b8712eadee2fc9014c2"
      [] key = "hunter_abc.org.au_Mary_Lee" -> "40881f8d8c8c349d72e34fca13f6ebc6"
      [] key = "linkedin_Jane Doe_" -> "1ca01a44ec3b45e37cddc63c4ffec94f"
      [] key = "linkedin_Jane Doe_ABC" -> "3e0fb256667be0a2a13b4bcbc1ffa923"
      [] key = "linkedin_Jane Doe_ABC_Legal" -> "68ce90d09c6ee0b28e1f9dc0b6d183b0"
      [] key = "news_Jane Doe_" -> "6fbe7de27c70fd0d306b1cf0a2858b05"
      [] key = "news_Jane Doe_ABC" -> "b04a1bb6d346988922c23e25a54c77e6"
      [] key = "news_Jane Doe_ABC_Legal" -> "d0704b1988793cf56052323d64d0c3a7"

CacheFile(key) == _get_cache_key(key) \o ".json"

CacheFileNames == {CacheFile(k) : k \in CacheKeys}

\* What the research sources hand to set: a scrape result, the Hunter.io
\* result list of (email, confidence) tuples, an empty result list.
CacheContents == {
    PyDict(<<PyStr("url"), PyStr("https://www.abc.org.au"), PyStr("title"), PyStr("ABC")>>),
    PyList(<<PyTuple(<<PyStr("jane@abc.org.au"), PyNum("0.9")>>)>>),
    PyList(<<>>) }

TTLHours == 24
MaxHours == 36
TickHours == {12}

\* How a write can end: written; open() raises and the file is untouched;
\* json.dump raises after open() truncated the file.
SetOutcomes == {"ok", "open_fails", "dump_fails"}

NoFile == [state |-> "missing", timestamp |-> 0, content |-> JsonDump(None)]
CorruptFile == [state |-> "corrupt", timestamp |-> 0, content |-> JsonDump(None)]
NeverSet == [called |-> FALSE, content |-> None, at |-> 0, outcome |-> "ok"]

\* Mutant of IsFresh: an entry exactly 24 hours old still counts as fresh.
IsFresh_Inclusive(cache_time, now) == now - cache_time <= TTLHours

\* "Check if cache is less than 24 hours old"
IsFresh(cache_time, now) == now - cache_time < TTLHours

\* CacheManager.get: None unless the file exists, parses and is fresh.
GetResult(file, now) ==
    IF file.state = "ok" /\ IsFresh(file.timestamp, now)
    THEN JsonLoad(file.content)
    ELSE None

CacheGet(key) ==
    /\ comp = "cache"
    /\ get_key' = key
    /\ get_ret' = GetResult(cache_files[CacheFile(key)], clock)
    /\ last_op' = "get"
    /\ UNCHANGED <<comp, clock, cacheOthers, cache_files, last_set>>

\* The file after set(key, content) ended with `outcome`.
WrittenFile(old, content, now, outcome) ==
    CASE outcome = "ok" -> [state |-> "ok", timestamp |-> now, content |-> JsonDump(content)]
      [] outcome = "open_fails" -> old
      [] OTHER -> CorruptFile

CacheSet(key, content, outcome) ==
    /\ comp = "cache"
    /\ cache_files' = [cache_files EXCEPT
                         ![CacheFile(key)] = WrittenFile(@, content, clock, outcome)]
    /\ last_set' = [last_set EXCEPT
                      ![key] = [called |-> TRUE, content |-> content, at |-> clock,
                                outcome |-> outcome]]
    /\ last_op' = "set"
    /\ UNCHANGED <<comp, clock, cacheOthers, get_key, get_ret>>

TickCache ==
    /\ comp = "cache"
    /\ \E d \in TickHours :
          /\ clock + d <= MaxHours
          /\ clock' = clock + d
    /\ last_op' = "tick"
    /\ UNCHANGED <<comp, cacheOthers, cache_files, last_set, get_key, get_ret>>

(***************************************************************************)
(* RateLimiter (research-contact-enrichment.py:210-243). Time in seconds.  *)
(***************************************************************************)
requests_per_minute == 2
requests_per_hour == 3
MinuteWindow == 60
HourWindow == 3600
MaxClock == 4600
TickSet == {900, 930}

\* "Clean old requests": the entries younger than the window, in order.
CleanOld(reqs, now, window) == SelectSeq(reqs, LAMBDA t : now - t < window)

\* The sleep of one limit check: 0 when the cap is not met or wait_time <= 0.
WaitTime(reqs, now, cap, window) ==
    IF Len(reqs) >= cap
    THEN LET wait_time == window - (now - SeqMin(reqs))
         IN  IF wait_time > 0 THEN wait_time ELSE 0
    ELSE 0

\* The timestamp appended for the pending call: `now`, read before any sleep.
RecordedTime(now, slept) == now

\* One whole call of wait_if_needed: prune, minute check (sleep), hour check
\* (sleep), record. asyncio.sleep advances the clock by the time slept.
wait_if_needed ==
    /\ comp = "rate_limiter"
    /\ LET now == clock
           mr  == CleanOld(minute_requests, now, MinuteWindow)
           hr  == CleanOld(hour_requests, now, HourWindow)
           w1  == WaitTime(mr, now, requests_per_minute, MinuteWindow)
           w2  == WaitTime(hr, now, requests_per_hour, HourWindow)
       IN  /\ now + w1 + w2 <= MaxClock
           /\ clock' = now + w1 + w2
           /\ minute_requests' = Append(mr, RecordedTime(now, w1 + w2))
           /\ hour_requests' = Append(hr, RecordedTime(now, w1 + w2))
    /\ UNCHANGED <<comp, rlOthers>>

\* Time passing between two calls.
TickRL ==
    /\ comp = "rate_limiter"
    /\ \E d \in TickSet :
          /\ clock + d <= MaxClock
          /\ clock' = clock + d
    /\ UNCHANGED <<comp, rlVars, rlOthers>>

(***************************************************************************)
(* Deduplication: YouthJusticeContactsConsolidator.remove_duplicates       *)
(* (consolidate-youth-justice-contacts.py:670-697) and                     *)
(* YouthJusticeContactAnalyzer._clean_and_deduplicate                      *)
(* (strategic-contact-scoring.py:204-233).                                 *)
(***************************************************************************)
RawFields == {"name", "organisation", "email", "title"}

Raw(n, o, e, t) == [name |-> n, organisation |-> o, email |-> e, title |-> t]

\* Raw records as the file processors build them (every field stripped, the
\* name never empty): three spellings of one identity with differing
\* completeness, the same name at no organisation, and a second person.
RawRecords == {
    Raw("Jane Doe", "ABC", "", ""),
    Raw("JANE DOE", "abc", "jane@abc.org.au", "Director"),
    Raw("Jane Doe", "ABC", "jane@abc.org.au", ""),
    Raw("Jane Doe", "", "", "Director"),
    Raw("Sam Lee", "ABC", "sam@abc.org.au", "") }

MaxRecords == 3

\* remove_duplicates: "Create a key for duplicate detection"
DuplicateKey(contact) ==
    <<Strip(Lower(contact.name)), Strip(Lower(contact.organisation))>>

\* The keys remembered after a record with `key` was looked at.
SeenAfter(seen, key) == seen \cup {key}

RECURSIVE RemoveDuplicatesFrom(_, _, _, _)
\* The loop of remove_duplicates from contact i on.
RemoveDuplicatesFrom(contacts, i, seen, unique_contacts) ==
    IF i > Len(contacts) THEN unique_contacts
    ELSE LET key == DuplicateKey(contacts[i])
         IN  IF key \notin seen
             THEN RemoveDuplicatesFrom(contacts, i + 1, seen \cup {key},
                                       Append(unique_contacts, contacts[i]))
             ELSE RemoveDuplicatesFrom(contacts, i + 1, SeenAfter(seen, key),
                                       unique_contacts)

\* Mutant of remove_duplicates: the loop starts at the second contact.
remove_duplicates_SkipFirst(contacts) == RemoveDuplicatesFrom(contacts, 2, {}, <<>>)

remove_duplicates(contacts) == RemoveDuplicatesFrom(contacts, 1, {}, <<>>)

\* A DataFrame cell: NaN, a string or a number.
NaN == [na |-> TRUE, s |-> "", n |-> 0]
StrCell(s) == [na |-> FALSE, s |-> s, n |-> 0]
NumCell(n) == [na |-> FALSE, s |-> "", n |-> n]

\* pd.read_csv and _standardize_columns: an empty CSV cell is read as NaN.
ReadCsvRow(raw) ==
    LET cell(v) == IF v = "" THEN NaN ELSE StrCell(v)
    IN  [full_name |-> cell(raw.name), organization |-> cell(raw.organisation),
         email |-> cell(raw.email), title |-> cell(raw.title)]

ReadCsv(raws) == [i \in DOMAIN raws |-> ReadCsvRow(raws[i])]

\* df.fillna('')
FillNa(row) == [c \in DOMAIN row |-> IF row[c].na THEN StrCell("") ELSE row[c]]

\* f"{str(row['full_name']).lower()}|{str(row['organization']).lower()}"
NameOrgKey(row) == Lower(row.full_name.s) \o "|" \o Lower(row.organization.s)

\* row plus (or with overwritten) column c
WithColumn(row, c, v) == [d \in DOMAIN row \cup {c} |-> IF d = c THEN v ELSE row[d]]

\* df.notna().sum(axis=1) of one row
NotNaCount(row) == Cardinality({c \in DOMAIN row : ~row[c].na})

\* Lines 207-226: fillna, the key column, the completeness column.
Prepared(df) ==
    [i \in DOMAIN df |->
        LET filled == FillNa(df[i])
            keyed  == WithColumn(filled, "name_org_key", StrCell(NameOrgKey(filled)))
        IN  WithColumn(keyed, "completeness_score", NumCell(NotNaCount(keyed)))]

\* sort_values('completeness_score', ascending=False): p is an order the sort
\* can produce; the default quicksort leaves the order of equal scores open.
IsSortOrder(df, p) ==
    \A i, j \in DOMAIN df :
        i < j => df[p[i]].completeness_score.n >= df[p[j]].completeness_score.n

\* drop_duplicates('name_org_key'): the first row of each key.
DropDuplicates(df) ==
    LET keepIdx == {i \in DOMAIN df :
                      \A j \in 1..(i - 1) : df[j].name_org_key # df[i].name_org_key}
        RECURSIVE Pick(_)
        Pick(i) == IF i > Len(df) THEN <<>>
                   ELSE (IF i \in keepIdx THEN <<df[i]>> ELSE <<>>) \o Pick(i + 1)
    IN  Pick(1)

\* Lines 227-231 on the prepared frame, sorted in order p: drop the duplicates,
\* reset the index, number the contacts.
SortedAndDropped(prepared, p) ==
    LET sorted   == [i \in DOMAIN prepared |-> prepared[p[i]]]
        df_final == DropDuplicates(sorted)
    IN  [i \in DOMAIN df_final |-> WithColumn(df_final[i], "contact_id", NumCell(i))]

\* The frames _clean_and_deduplicate can return for df.
_clean_and_deduplicate(df) ==
    LET prepared == Prepared(df)
    IN  {SortedAndDropped(prepared, p) : p \in {q \in Perms(Len(df)) : IsSortOrder(prepared, q)}}

\* The raw record a DataFrame row stands for.
RawOfRow(row) == Raw(row.full_name.s, row.organization.s, row.email.s, row.title.s)

Permuted(xs, p) == [i \in DOMAIN xs |-> xs[p[i]]]

RunRemoveDuplicates ==
    /\ comp = "dedupe" /\ dd_stage = "input"
    /\ dd_algo' = "remove_duplicates"
    /\ dd_out' = remove_duplicates(dd_input)
    /\ dd_stage' = "once"
    /\ UNCHANGED <<comp, ddOthers, dd_input, dd_again, dd_perm, dd_perm_out>>

RunCleanAndDeduplicate ==
    /\ comp = "dedupe" /\ dd_stage = "input"
    /\ dd_algo' = "_clean_and_deduplicate"
    /\ dd_out' \in _clean_and_deduplicate(ReadCsv(dd_input))
    /\ dd_stage' = "once"
    /\ UNCHANGED <<comp, ddOthers, dd_input, dd_again, dd_perm, dd_perm_out>>

\* The same deduplication run on its own output.
RunAgain ==
    /\ comp = "dedupe" /\ dd_stage = "once"
    /\ \/ /\ dd_algo = "remove_duplicates"
          /\ dd_again' = remove_duplicates(dd_out)
       \/ /\ dd_algo = "_clean_and_deduplicate"
          /\ dd_again' \in _clean_and_deduplicate(dd_out)
    /\ dd_stage' = "twice"
    /\ UNCHANGED <<comp, ddOthers, dd_input, dd_algo, dd_out, dd_perm, dd_perm_out>>

\* The same deduplication run on a permutation of the input.
RunPermuted ==
    /\ comp = "dedupe" /\ dd_stage = "once"
    /\ \E q \in Perms(Len(dd_input)) :
          /\ dd_perm' = Permuted(dd_input, q)
          /\ \/ /\ dd_algo = "remove_duplicates"
                /\ dd_perm_out' = remove_duplicates(Permuted(dd_input, q))
             \/ /\ dd_algo = "_clean_and_deduplicate"
                /\ dd_perm_out' \in _clean_and_deduplicate(ReadCsv(Permuted(dd_input, q)))
    /\ dd_stage' = "permuted"
    /\ UNCHANGED <<comp, ddOthers, dd_input, dd_algo, dd_out, dd_again>>

(***************************************************************************)
(* YouthJusticeContactAnalyzer (strategic-contact-scoring.py). Scores are  *)
(* held in tenths of a point (sector multipliers have one decimal), the    *)
(* composite in thousandths (weights have two), so the arithmetic is exact.*)
(***************************************************************************)
Min2(a, b) == IF a <= b THEN a ELSE b

\* any(k in text for k in keywords)
AnyIn(keywords, text) == \E i \in DOMAIN keywords : Contains(text, keywords[i])

\* number of the keywords found in text
HitCount(keywords, text) == Cardinality({i \in DOMAIN keywords : Contains(text, keywords[i])})

high_relevance == <<
    "youth justice", "juvenile justice", "youth detention", "young offenders",
    "children's court", "youth advocacy", "juvenile reform", "youth crime",
    "detention centre", "first nations youth", "indigenous youth",
    "children's ground", "youth at risk", "young people in custody" >>

medium_relevance == <<
    "criminal justice", "justice reform", "social justice", "human rights",
    "child protection", "social work", "community services", "legal aid",
    "indigenous affairs", "first nations", "aboriginal", "torres strait",
    "disadvantaged youth", "at-risk youth", "youth services" >>

low_relevance == <<
    "policy", "government", "public service", "research", "academic",
    "social impact", "community", "nonprofit", "philanthropy",
    "media", "journalism", "education", "health" >>

high_influence == <<
    "minister", "secretary", "director-general", "ceo", "chair",
    "commissioner", "chief", "president", "premier", "mp",
    "senator", "judge", "magistrate", "professor", "dean" >>

medium_influence == <<
    "director", "manager", "head of", "principal", "coordinator",
    "senior", "lead", "executive", "advisor", "consultant",
    "journalist", "editor", "producer", "researcher" >>

\* sector_influence, in dict order; the multipliers in tenths
sector_influence == <<
    <<"government", 30>>, <<"media", 25>>, <<"academic", 20>>, <<"nonprofit", 18>>,
    <<"legal", 22>>, <<"health", 15>>, <<"corporate", 13>> >>

\* sector_scores of calculate_youth_justice_relevance
sector_scores == <<
    <<"campaign leader", 40>>, <<"campaign partner", 30>>, <<"global expert", 35>>,
    <<"civil society", 20>>, <<"media", 25>>, <<"government", 30>>,
    <<"academic", 15>>, <<"legal", 25>> >>

\* The columns of a contact row that the scoring reads ('' where the frame
\* has no value, after fillna('')).
EmptyContact ==
    [title |-> "", organization |-> "", sector |-> "", campaign_relevance |-> "",
     email |-> "", linkedin_url |-> "", contact_info |-> "", connected_date |-> ""]

RECURSIVE SumSeq(_)
SumSeq(s) == IF s = <<>> THEN 0 ELSE Head(s) + SumSeq(Tail(s))

Cap100_Uncapped(score10) == score10

\* The cap every score function ends with: min(score, 100), in tenths.
Cap100(score10) == Min2(score10, 1000)

calculate_youth_justice_relevance(contact) ==
    LET combined_text == Lower(contact.title \o " " \o contact.organization \o " "
                               \o contact.sector \o " " \o contact.campaign_relevance)
        org_text == Lower(contact.organization)
        sector == Lower(contact.sector)
        score == 25 * HitCount(high_relevance, combined_text)
                 + 10 * HitCount(medium_relevance, combined_text)
                 + 5 * HitCount(low_relevance, combined_text)
                 + (IF AnyIn(<<"children's ground", "justice", "youth", "juvenile">>, org_text)
                    THEN 20 ELSE 0)
                 + SumSeq([i \in DOMAIN sector_scores |->
                             IF Contains(sector, sector_scores[i][1])
                             THEN sector_scores[i][2] ELSE 0])
    IN  Cap100(10 * score)

calculate_influence_score(contact) ==
    LET title == Lower(contact.title)
        organization == Lower(contact.organization)
        sector == Lower(contact.sector)
        position == 30 * HitCount(high_influence, title)
                    + 15 * HitCount(medium_influence, title)
        matching == {i \in DOMAIN sector_influence :
                        \/ Contains(sector, sector_influence[i][1])
                        \/ Contains(organization, sector_influence[i][1])}
        \* the first matching sector multiplies the score, then `break`
        multiplied == IF matching = {} THEN 10 * position
                      ELSE position * sector_influence[
                               CHOOSE i \in matching : \A j \in matching : i <= j][2]
        score10 == multiplied
                   + (IF AnyIn(<<"abc", "sbs", "guardian", "age", "smh", "four corners",
                                 "60 minutes">>, organization) THEN 250 ELSE 0)
                   + (IF AnyIn(<<"minister", "department", "government", "public service">>,
                               organization) THEN 200 ELSE 0)
                   + (IF AnyIn(<<"university", "professor", "research", "institute">>,
                               organization) THEN 150 ELSE 0)
    IN  Cap100(score10)

calculate_accessibility_score_NoBase(contact) ==
    Cap100(10 * ((IF contact.email # "" THEN 20 ELSE 0)
                 + (IF contact.linkedin_url # "" THEN 15 ELSE 0)
                 + (IF contact.contact_info # "" THEN 10 ELSE 0)))

calculate_accessibility_score(contact) ==
    LET contact_info == Lower(contact.contact_info)
        org == Lower(contact.organization)
        sector == Lower(contact.sector)
        score == 50
                 + (IF contact.email # "" THEN 20 ELSE 0)
                 + (IF contact.linkedin_url # "" THEN 15 ELSE 0)
                 + (IF contact.contact_info # "" THEN 10 ELSE 0)
                 + (IF Contains(contact_info, "public contact") THEN 15 ELSE 0)
                 + (IF Contains(contact_info, "twitter") \/ Contains(contact_info, "@")
                    THEN 10 ELSE 0)
                 + (IF AnyIn(<<"abc", "sbs", "university", "foundation", "nonprofit">>, org)
                    THEN 10 ELSE 0)
                 + (IF Contains(sector, "media") THEN 15
                    ELSE IF Contains(sector, "civil society") THEN 10
                    ELSE IF Contains(sector, "government") THEN -10
                    ELSE 0)
    IN  Cap100(10 * score)

\* The timing score on a base of 50
calculate_timing_score_Base50(contact) ==
    LET campaign_rel == Lower(contact.campaign_relevance)
        sector == Lower(contact.sector)
        score == 50
                 + (IF Contains(campaign_rel, "launch") \/ Contains(campaign_rel, "co-founder")
                    THEN 30
                    ELSE IF Contains(campaign_rel, "keynote") \/ Contains(campaign_rel, "speaker")
                    THEN 25
                    ELSE IF Contains(campaign_rel, "partner") THEN 20
                    ELSE 0)
                 + (IF Contains(sector, "media") THEN 15 ELSE 0)
                 + (IF contact.connected_date # "" /\ Contains(contact.connected_date, "2025")
                    THEN 10 ELSE 0)
    IN  Cap100(10 * score)

calculate_timing_score(contact) ==
    LET campaign_rel == Lower(contact.campaign_relevance)
        sector == Lower(contact.sector)
        score == 60
                 + (IF Contains(campaign_rel, "launch") \/ Contains(campaign_rel, "co-founder")
                    THEN 30
                    ELSE IF Contains(campaign_rel, "keynote") \/ Contains(campaign_rel, "speaker")
                    THEN 25
                    ELSE IF Contains(campaign_rel, "partner") THEN 20
                    ELSE 0)
                 + (IF Contains(sector, "media") THEN 15 ELSE 0)
                 + (IF contact.connected_date # "" /\ Contains(contact.connected_date, "2025")
                    THEN 10 ELSE 0)
    IN  Cap100(10 * score)

high_value_indicators == <<
    "founder", "ceo", "director", "minister", "professor",
    "editor", "columnist", "commissioner", "chair" >>

calculate_strategic_value(contact) ==
    LET campaign_rel == Lower(contact.campaign_relevance)
        title == Lower(contact.title)
        score == 20 * Cardinality({i \in DOMAIN high_value_indicators :
                          \/ Contains(title, high_value_indicators[i])
                          \/ Contains(campaign_rel, high_value_indicators[i])})
                 + (IF Contains(campaign_rel, "network") \/ Contains(campaign_rel, "connects")
                    THEN 15 ELSE 0)
                 + (IF Contains(campaign_rel, "lived experience") THEN 25 ELSE 0)
                 + (IF Contains(campaign_rel, "international") \/ Contains(campaign_rel, "global")
                    THEN 20 ELSE 0)
                 + (IF Contains(campaign_rel, "digital") \/ Contains(campaign_rel, "innovation")
                    THEN 15 ELSE 0)
    IN  Cap100(10 * score)

\* The risk score with 30 for a partisan affiliation
calculate_risk_score_Partisan30(contact) ==
    LET org == Lower(contact.organization)
        campaign_rel == Lower(contact.campaign_relevance)
        risk == (IF Contains(org, "liberal") \/ Contains(org, "labor") \/ Contains(org, "greens")
                 THEN 30 ELSE 0)
                + (IF Contains(campaign_rel, "abuse") \/ Contains(campaign_rel, "expose")
                   THEN 10 ELSE 0)
                + (IF Contains(campaign_rel, "investigative") THEN 15 ELSE 0)
                + (IF Contains(org, "government") /\ ~Contains(Lower(contact.title), "minister")
                   THEN 10 ELSE 0)
    IN  Cap100(10 * risk)

calculate_risk_score(contact) ==
    LET org == Lower(contact.organization)
        campaign_rel == Lower(contact.campaign_relevance)
        risk == (IF Contains(org, "liberal") \/ Contains(org, "labor") \/ Contains(org, "greens")
                 THEN 20 ELSE 0)
                + (IF Contains(campaign_rel, "abuse") \/ Contains(campaign_rel, "expose")
                   THEN 10 ELSE 0)
                + (IF Contains(campaign_rel, "investigative") THEN 15 ELSE 0)
                + (IF Contains(org, "government") /\ ~Contains(Lower(contact.title), "minister")
                   THEN 10 ELSE 0)
    IN  Cap100(10 * risk)

\* scoring_weights, in hundredths
scoring_weights ==
    [youth_justice_relevance |-> 30, influence_score |-> 25, accessibility_score |-> 20,
     timing_score |-> 15, strategic_value |-> 10]

CompositeScore_MinusRisk(relevance, influence, accessibility, timing, strategic, risk) ==
    relevance * scoring_weights.youth_justice_relevance
    + influence * scoring_weights.influence_score
    + accessibility * scoring_weights.accessibility_score
    + timing * scoring_weights.timing_score
    + strategic * scoring_weights.strategic_value
    - risk * scoring_weights.strategic_value

\* "Calculate composite score" of process_contacts, in thousandths; risk is
\* passed along as the code has it at hand, and is not used.
CompositeScore(relevance, influence, accessibility, timing, strategic, risk) ==
    relevance * scoring_weights.youth_justice_relevance
    + influence * scoring_weights.influence_score
    + accessibility * scoring_weights.accessibility_score
    + timing * scoring_weights.timing_score
    + strategic * scoring_weights.strategic_value

\* ContactScore: the five dimensions and risk in tenths, composite in thousandths.
ContactScore(relevance, influence, accessibility, timing, strategic, risk) ==
    [youth_justice_relevance |-> relevance, influence_score |-> influence,
     accessibility_score |-> accessibility, timing_score |-> timing,
     strategic_value |-> strategic,
     composite_priority |->
         CompositeScore(relevance, influence, accessibility, timing, strategic, risk),
     risk_score |-> risk]

\* Lines 808-833: the scores of one contact.
ScoreContact(contact) ==
    ContactScore(calculate_youth_justice_relevance(contact),
                 calculate_influence_score(contact),
                 calculate_accessibility_score(contact),
                 calculate_timing_score(contact),
                 calculate_strategic_value(contact),
                 calculate_risk_score(contact))

Tier_StrictThresholds(composite_priority) ==
    IF composite_priority > 80000 THEN "Tier 1: Immediate Priority"
    ELSE IF composite_priority > 65000 THEN "Tier 2: Important Influencers"
    ELSE IF composite_priority > 50000 THEN "Tier 3: Network Builders"
    ELSE "Tier 4: Long-term Cultivation"

\* "Determine tier based on composite score"
Tier(composite_priority) ==
    IF composite_priority >= 80000 THEN "Tier 1: Immediate Priority"
    ELSE IF composite_priority >= 65000 THEN "Tier 2: Important Influencers"
    ELSE IF composite_priority >= 50000 THEN "Tier 3: Network Builders"
    ELSE "Tier 4: Long-term Cultivation"

Category_GatekeepersFirst(scores) ==
    IF scores.influence_score >= 700 THEN "Gatekeepers"
    ELSE IF scores.youth_justice_relevance >= 700 /\ scores.influence_score >= 600 THEN "Champions"
    ELSE IF scores.accessibility_score >= 700 /\ scores.influence_score >= 500 THEN "Amplifiers"
    ELSE IF scores.youth_justice_relevance >= 600 THEN "Validators"
    ELSE IF scores.accessibility_score <= 400 \/ scores.risk_score >= 600 THEN "Blockers"
    ELSE "Convincibles"

\* "Determine strategic category"
Category(scores) ==
    IF scores.youth_justice_relevance >= 700 /\ scores.influence_score >= 600 THEN "Champions"
    ELSE IF scores.influence_score >= 700 THEN "Gatekeepers"
    ELSE IF scores.accessibility_score >= 700 /\ scores.influence_score >= 500 THEN "Amplifiers"
    ELSE IF scores.youth_justice_relevance >= 600 THEN "Validators"
    ELSE IF scores.accessibility_score <= 400 \/ scores.risk_score >= 600 THEN "Blockers"
    ELSE "Convincibles"

\* The items whose condition holds, in order: conds is a sequence of
\* <<condition, items>>.
RECURSIVE Collect(_)
Collect(conds) ==
    IF conds = <<>> THEN <<>>
    ELSE (IF Head(conds)[1] THEN Head(conds)[2] ELSE <<>>) \o Collect(Tail(conds))

\* The approaches with Media Collaboration from influence 60
Approaches_Media60(scores, category) ==
    Collect(<<
        <<scores.accessibility_score >= 700, <<"Direct Approach">> >>,
        <<scores.influence_score >= 600, <<"Event Invitation", "Advisory Role">> >>,
        <<Contains(Lower(category), "media") \/ scores.influence_score >= 600,
          <<"Media Collaboration">> >>,
        <<scores.strategic_value >= 600, <<"Research Partnership">> >> >>)

\* "Determine engagement approaches", lines 476-485
Approaches(scores, category) ==
    Collect(<<
        <<scores.accessibility_score >= 700, <<"Direct Approach">> >>,
        <<scores.influence_score >= 600, <<"Event Invitation", "Advisory Role">> >>,
        <<Contains(Lower(category), "media") \/ scores.influence_score >= 500,
          <<"Media Collaboration">> >>,
        <<scores.strategic_value >= 600, <<"Research Partnership">> >> >>)

\* "Determine campaign segments", lines 487-496
CampaignSegments(scores, category) ==
    Collect(<<
        <<scores.youth_justice_relevance >= 700, <<"Youth Justice Champions Campaign">> >>,
        <<scores.influence_score >= 700, <<"Political Engagement Campaign">> >>,
        <<Contains(Lower(category), "media"), <<"Media Outreach Campaign">> >>,
        <<scores.strategic_value >= 600, <<"Academic Alliance Campaign">> >> >>)

\* The pathway ladder with its third rung on the risk score
Pathway_RiskRung(scores) ==
    IF scores.accessibility_score >= 800 THEN "Direct Contact"
    ELSE IF scores.accessibility_score >= 600 THEN "Social Media Engagement"
    ELSE IF scores.risk_score >= 400 THEN "Formal Request"
    ELSE "Warm Introduction"

\* "Determine pathway", lines 498-506
Pathway(scores) ==
    IF scores.accessibility_score >= 800 THEN "Direct Contact"
    ELSE IF scores.accessibility_score >= 600 THEN "Social Media Engagement"
    ELSE IF scores.influence_score >= 700 THEN "Formal Request"
    ELSE "Warm Introduction"

categorize_contact(scores) ==
    LET category == Category(scores)
    IN  [tier |-> Tier(scores.composite_priority),
         category |-> category,
         approach |-> Approaches(scores, category),
         campaign_segments |-> CampaignSegments(scores, category),
         pathway |-> Pathway(scores),
         \* min((accessibility + timing + (100 - risk)) / 3, 95), times 30
         success_probability |->
             Min2(scores.accessibility_score + scores.timing_score
                  + (1000 - scores.risk_score), 2850),
         resource_requirement |->
             IF scores.composite_priority >= 80000 THEN "High Touch"
             ELSE IF scores.composite_priority >= 60000 THEN "Medium Touch"
             ELSE "Low Touch",
         timing_recommendation |->
             IF scores.timing_score >= 800 THEN "Immediate (1-2 weeks)"
             ELSE IF scores.timing_score >= 600 THEN "Short-term (1-2 months)"
             ELSE "Long-term (3-6 months)",
         risks |-> Collect(<<
             <<scores.risk_score >= 600, <<"High reputation risk">> >>,
             <<scores.risk_score >= 400, <<"Political sensitivities">> >>,
             <<scores.accessibility_score <= 400, <<"Low response probability">> >> >>)]

\* Rows of contacts_df: the scenario record, an empty record, a record that
\* stacks every indicator, records differing in risk only, and records of
\* each tier and category.
ScoringContacts == {
    [EmptyContact EXCEPT !.title = "Director, Youth Justice Reform",
        !.organization = "Department of Justice"],
    EmptyContact,
    [EmptyContact EXCEPT !.title = "Minister, Commissioner, Chair and Professor",
        !.organization = "ABC Youth Justice University", !.sector = "Media, Government",
        !.campaign_relevance = "Campaign co-founder and launch speaker: lived experience, international network, digital innovation in youth justice and juvenile justice",
        !.email = "max@abc.net.au", !.linkedin_url = "https://linkedin.com/in/max",
        !.contact_info = "Public contact: @max on twitter", !.connected_date = "12 Mar 2025"],
    [EmptyContact EXCEPT !.organization = "Labor Party",
        !.campaign_relevance = "Could expose abuse; investigative"],
    [EmptyContact EXCEPT !.organization = "Party"],
    [EmptyContact EXCEPT !.title = "Policy Officer",
        !.organization = "Liberal Government Office",
        !.campaign_relevance = "investigative reporting on abuse"],
    [EmptyContact EXCEPT !.organization = "Treasury", !.sector = "Government"],
    [EmptyContact EXCEPT !.title = "CEO", !.organization = "Youth Justice Coalition",
        !.sector = "Civil Society", !.campaign_relevance = "Partner; youth detention advocate",
        !.email = "ceo@yjc.org.au"],
    [EmptyContact EXCEPT !.title = "Senior Journalist", !.organization = "The Guardian",
        !.sector = "Media", !.campaign_relevance = "Keynote speaker",
        !.email = "j@guardian.com", !.linkedin_url = "https://linkedin.com/in/j"],
    [EmptyContact EXCEPT !.title = "Professor of Criminology",
        !.organization = "Griffith University", !.sector = "Academic",
        !.campaign_relevance = "Research on juvenile justice",
        !.linkedin_url = "https://linkedin.com/in/p"],
    [EmptyContact EXCEPT !.title = "Magistrate", !.organization = "Children's Court",
        !.sector = "Legal"],
    [EmptyContact EXCEPT !.title = "Campaign Manager", !.organization = "Village Foundation",
        !.email = "m@village.org"],
    [EmptyContact EXCEPT !.title = "Youth Worker", !.organization = "Community Services",
        !.campaign_relevance = "youth services, at-risk youth"],
    [EmptyContact EXCEPT !.title = "Commissioner", !.organization = "Human Rights Commission",
        !.sector = "Government", !.campaign_relevance = "child protection",
        !.email = "c@hrc.gov.au", !.connected_date = "2025-02-01"],
    [EmptyContact EXCEPT !.title = "Editor", !.organization = "SBS", !.sector = "Media",
        !.contact_info = "@sbs", !.connected_date = "2024-11-30"],
    [EmptyContact EXCEPT !.title = "Coordinator", !.organization = "Indigenous Youth Network",
        !.sector = "Campaign Partner",
        !.campaign_relevance = "first nations youth; connects communities",
        !.email = "c@iyn.org.au", !.linkedin_url = "x", !.contact_info = "Public contact"],
    [EmptyContact EXCEPT !.title = "Minister for Youth Justice",
        !.organization = "Queensland Government", !.sector = "Government"],
    [EmptyContact EXCEPT !.title = "Researcher", !.organization = "Institute of Health",
        !.sector = "Health"],
    [EmptyContact EXCEPT !.title = "Founder", !.organization = "Startup",
        !.sector = "Corporate", !.campaign_relevance = "digital innovation",
        !.email = "f@s.co", !.linkedin_url = "y", !.connected_date = "2025"],
    [EmptyContact EXCEPT !.title = "Director-General",
        !.organization = "Department of Youth Justice", !.sector = "Government",
        !.campaign_relevance = "Launch partner", !.email = "dg@gov.au", !.linkedin_url = "z",
        !.contact_info = "Public contact office", !.connected_date = "2025"] }

MaxContacts == 2

\* One pass of the loop of process_contacts (lines 806-843): score the next
\* row, categorize it, append the result.
ProcessNextContact ==
    /\ Len(scores_data) < Len(contacts_df)
    /\ LET contact == contacts_df[Len(scores_data) + 1]
           contact_scores == ScoreContact(contact)
       IN  scores_data' = Append(scores_data,
              [contact |-> contact, scores |-> contact_scores,
               strategy |-> categorize_contact(contact_scores)])
    /\ UNCHANGED <<comp, scOthers, contacts_df>>

(***************************************************************************)
(* categorize_contact on its own (strategic-contact-scoring.py:449-546):   *)
(* one ContactScore in, one EngagementStrategy out.                        *)
(***************************************************************************)
NoStrategy == [tier |-> "", category |-> ""]

\* ContactScore values around every threshold of categorize_contact; the
\* composite is the one process_contacts derives from the five dimensions.
GridVectors ==
    {ContactScore(r, i, a, t, s, k) :
        r \in {0, 600, 695, 700, 800}, i \in {0, 495, 500, 600, 695, 700, 799, 800},
        a \in {400, 405, 600, 700, 800}, t \in {600, 800}, s \in {0, 600, 800},
        k \in {0, 400, 595, 600}}

\* All dimensions equal, so the composite is that value: on and just below
\* the tier thresholds.
DiagonalVectors ==
    {ContactScore(v, v - d, v, v, v, 0) : v \in {500, 650, 800}, d \in {0, 1}}

ScoreVectors == GridVectors \cup DiagonalVectors \cup {ScoreContact(c) : c \in ScoringContacts}

CategorizeContact ==
    /\ strategy = NoStrategy
    /\ strategy' = categorize_contact(score_vector)
    /\ UNCHANGED <<comp, catOthers, score_vector>>

(***************************************************************************)
(* research_single_contact (research-contact-enrichment.py:778-896).       *)
(***************************************************************************)
\* dict.get(key, default)
Get(d, key, default) == IF key \in DOMAIN d THEN d[key] ELSE default

\* The dataclass fields of ContactEnrichment declared without a default
\* (lines 127-132): the generated __init__ requires them.
RequiredFields == {"original_data", "found_emails", "verified_emails", "email_confidence_scores"}

TypeError == [raised |-> "TypeError"]

\* ContactEnrichment(**kwargs): the generated __init__ raises TypeError when a
\* required field is missing; otherwise the defaults and __post_init__ apply.
\* The fields research_single_contact writes are kept.
ContactEnrichment(kwargs) ==
    IF ~(RequiredFields \subseteq DOMAIN kwargs) THEN TypeError
    ELSE [raised |-> "",
          original_data |-> kwargs["original_data"],
          found_emails |-> kwargs["found_emails"],
          linkedin_url |-> Get(kwargs, "linkedin_url", ""),
          current_position |-> Get(kwargs, "current_position", ""),
          news_mentions |-> Get(kwargs, "news_mentions", 0),
          research_confidence |-> Get(kwargs, "research_confidence", 0),
          data_sources |-> Get(kwargs, "data_sources", <<>>),
          error_logged |-> FALSE]

\* Config: the flags research_single_contact reads, and whether
\* HUNTER_IO_API_KEY is set.
Configs ==
    [enable_email_finding : BOOLEAN, enable_linkedin_research : BOOLEAN,
     enable_news_research : BOOLEAN, enable_web_scraping : BOOLEAN,
     enable_ai_analysis : BOOLEAN, hunter_io_api_key : BOOLEAN]

AllSourcesDisabled(cfg) ==
    /\ ~cfg.enable_email_finding /\ ~cfg.enable_linkedin_research
    /\ ~cfg.enable_news_research /\ ~cfg.enable_web_scraping /\ ~cfg.enable_ai_analysis

\* What the sources of one contact come back with. The news search always
\* builds its three placeholder mentions; the web scrape may find a LinkedIn
\* link; the LinkedIn and AI sections can raise on malformed API data.
SourceOutcomes ==
    [email : {"emails", "none"}, linkedin : {"profile", "none", "raises"},
     web : {"scraped_linkedin", "scraped", "none"}, ai : {"ok", "raises"}]

\* name and organisation, lines 782-783
ResearchName(contact) ==
    Strip(Get(contact, "First Name", "") \o " " \o Get(contact, "Last Name", ""))

ResearchOrganisation(contact) == Strip(Get(contact, "Organisation", ""))

Running(e) == [enrichment |-> e, raised |-> FALSE]
Raising(e) == [enrichment |-> e, raised |-> TRUE]

\* A cell pd.read_csv left empty is float('nan') in row.to_dict(). read_csv
\* never yields the text 'nan' (it reads it as NaN), so the string "nan",
\* which is what str() makes of it, stands for the float.
NaNCell == "nan"

\* Lines 789-801. find_emails_for_contact calls .strip() on the three
\* identity cells (lines 452-454): on a NaN cell that raises AttributeError.
EmailSection(e, cfg, out) ==
    IF ~cfg.enable_email_finding THEN Running(e)
    ELSE IF NaNCell \in {Get(e.original_data, "First Name", ""),
                         Get(e.original_data, "Last Name", ""),
                         Get(e.original_data, "Organisation", "")}
         THEN Raising(e)
    ELSE LET has_name == /\ Strip(Get(e.original_data, "First Name", "")) # ""
                         /\ Strip(Get(e.original_data, "Last Name", "")) # ""
                         /\ Strip(Get(e.original_data, "Organisation", "")) # ""
             found == IF has_name /\ out.email = "emails"
                      THEN <<"jane.doe@department.gov.au">> ELSE <<>>
         IN  Running([e EXCEPT
                 !.found_emails = @ \o found,
                 !.data_sources = @ \o <<"email_patterns">>
                                    \o (IF cfg.hunter_io_api_key THEN <<"hunter_io">> ELSE <<>>)])

\* Lines 804-825
LinkedInSection(e, cfg, out) ==
    IF ~cfg.enable_linkedin_research \/ out.linkedin = "none" THEN Running(e)
    ELSE IF out.linkedin = "raises"
         THEN Raising([e EXCEPT !.linkedin_url = "https://linkedin.com/in/profile",
                                !.current_position = "headline"])
    ELSE Running([e EXCEPT !.linkedin_url = "https://linkedin.com/in/profile",
                           !.current_position = "headline",
                           !.data_sources = @ \o <<"linkedin">>])

\* Lines 828-832
NewsSection(e, cfg, out) ==
    IF ~cfg.enable_news_research THEN Running(e)
    ELSE Running([e EXCEPT !.news_mentions = 3, !.data_sources = @ \o <<"news_search">>])

\* Lines 835-860
WebSection(e, cfg, out) ==
    IF ~cfg.enable_web_scraping \/ ResearchOrganisation(e.original_data) = ""
       \/ out.web = "none"
    THEN Running(e)
    ELSE Running([e EXCEPT
             !.linkedin_url = IF out.web = "scraped_linkedin"
                              THEN "https://linkedin.com/in/org" ELSE @,
             !.data_sources = @ \o <<"web_scraping">>])

\* Lines 863-886
AISection(e, cfg, out) ==
    IF ~cfg.enable_ai_analysis THEN Running(e)
    ELSE IF out.ai = "raises" THEN Raising(e)
    ELSE Running([e EXCEPT !.data_sources = @ \o <<"ai_analysis">>])

\* The sources research_confidence is divided by (line 889); the confidence
\* is kept as its numerator, in sixths.
MaxSources == 6

\* The try block (lines 787-894): the sections in order; an exception in one
\* skips the rest, the confidence included, and is logged.
TryBlock(e, cfg, out) ==
    LET s1 == EmailSection(e, cfg, out)
        s2 == IF s1.raised THEN s1 ELSE LinkedInSection(s1.enrichment, cfg, out)
        s3 == IF s2.raised THEN s2 ELSE NewsSection(s2.enrichment, cfg, out)
        s4 == IF s3.raised THEN s3 ELSE WebSection(s3.enrichment, cfg, out)
        s5 == IF s4.raised THEN s4 ELSE AISection(s4.enrichment, cfg, out)
    IN  IF s5.raised THEN [s5.enrichment EXCEPT !.error_logged = TRUE]
        ELSE [s5.enrichment EXCEPT !.research_confidence = Len(s5.enrichment.data_sources)]

NoEnrichment == [raised |-> "not called"]

\* research_single_contact: the enrichment is constructed before the try
\* block (line 780), so an exception of the constructor reaches the caller.
research_single_contact ==
    /\ research_pc = "ready"
    /\ \E out \in SourceOutcomes :
          LET constructed == ContactEnrichment([original_data |-> contact_data])
          IN  IF constructed.raised # ""
              THEN /\ enrichment' = constructed
                   /\ research_pc' = "raised"
              ELSE /\ enrichment' = TryBlock(constructed, config, out)
                   /\ research_pc' = "returned"
    /\ UNCHANGED <<comp, rsOthers, config, contact_data, source_outcomes, sources_invoked>>

\* The record of the scenario, a row of the research input CSV, and a record
\* of another tier.
JaneDoe ==
    [name |-> "Jane Doe", organization |-> "Department of Justice",
     title |-> "Director, Youth Justice Reform", notes |-> "youth justice policy advisor"]

ScenarioRecords == {
    JaneDoe,
    ("First Name" :> "Jane") @@ ("Last Name" :> "Doe")
        @@ ("Organisation" :> "Department of Justice")
        @@ ("Role" :> "Director, Youth Justice Reform"),
    [name |-> "Sam Lee", organization |-> "Department of Youth Justice",
     title |-> "Director-General", sector |-> "Government",
     campaign_relevance |-> "Launch partner", email |-> "dg@gov.au",
     linkedin_url |-> "z", contact_info |-> "Public contact office",
     connected_date |-> "2025"] }

\* The row process_contacts sees: contact.get(field, '') for each field read.
ScoringRow(record) == [f \in DOMAIN EmptyContact |-> Get(record, f, "")]

(***************************************************************************)
(* The try block of research_single_contact (lines 787-894), one section   *)
(* per step, entered with the enrichment __post_init__ describes (every    *)
(* list empty). As the source stands the constructor call of line 780      *)
(* raises before the block is entered (see research_single_contact above). *)
(***************************************************************************)
\* Rows of the input CSV as row.to_dict(): all cells filled; no Organisation
\* column; the First Name cell empty.
ResearchRows == {
    ("First Name" :> "Jane") @@ ("Last Name" :> "Doe")
        @@ ("Organisation" :> "Department of Justice"),
    ("First Name" :> "Sam") @@ ("Last Name" :> "Lee"),
    ("First Name" :> NaNCell) @@ ("Last Name" :> "Doe")
        @@ ("Organisation" :> "Department of Justice") }

ConstructedEnrichment(row) ==
    ContactEnrichment([original_data |-> row, found_emails |-> <<>>,
                       verified_emails |-> <<>>, email_confidence_scores |-> <<>>])

\* The except clause of lines 893-894 logs and falls through to the return.
AfterSection(st) ==
    IF st.raised THEN [st.enrichment EXCEPT !.error_logged = TRUE] ELSE st.enrichment

NextSection(st, next) == IF st.raised THEN "returned" ELSE next

Invoked(called, source) ==
    IF called THEN Append(sources_invoked, source) ELSE sources_invoked

EmailStep ==
    /\ research_pc = "email"
    /\ LET st == EmailSection(enrichment, config, source_outcomes)
       IN  /\ enrichment' = AfterSection(st)
           /\ research_pc' = NextSection(st, "linkedin")
    /\ sources_invoked' = Invoked(config.enable_email_finding, "email")
    /\ UNCHANGED <<comp, rsOthers, config, contact_data, source_outcomes>>

LinkedInStep ==
    /\ research_pc = "linkedin"
    /\ LET st == LinkedInSection(enrichment, config, source_outcomes)
       IN  /\ enrichment' = AfterSection(st)
           /\ research_pc' = NextSection(st, "news")
    /\ sources_invoked' = Invoked(config.enable_linkedin_research, "linkedin")
    /\ UNCHANGED <<comp, rsOthers, config, contact_data, source_outcomes>>

NewsStep ==
    /\ research_pc = "news"
    /\ LET st == NewsSection(enrichment, config, source_outcomes)
       IN  /\ enrichment' = AfterSection(st)
           /\ research_pc' = NextSection(st, "web")
    /\ sources_invoked' = Invoked(config.enable_news_research, "news")
    /\ UNCHANGED <<comp, rsOthers, config, contact_data, source_outcomes>>

WebStep ==
    /\ research_pc = "web"
    /\ LET st == WebSection(enrichment, config, source_outcomes)
       IN  /\ enrichment' = AfterSection(st)
           /\ research_pc' = NextSection(st, "ai")
    /\ sources_invoked' =
           Invoked(config.enable_web_scraping /\ ResearchOrganisation(contact_data) # "", "web")
    /\ UNCHANGED <<comp, rsOthers, config, contact_data, source_outcomes>>

AIStep ==
    /\ research_pc = "ai"
    /\ LET st == AISection(enrichment, config, source_outcomes)
       IN  /\ enrichment' = AfterSection(st)
           /\ research_pc' = NextSection(st, "confidence")
    /\ sources_invoked' = Invoked(config.enable_ai_analysis, "ai")
    /\ UNCHANGED <<comp, rsOthers, config, contact_data, source_outcomes>>

\* Line 889, then the return of line 896
ConfidenceStep ==
    /\ research_pc = "confidence"
    /\ enrichment' = [enrichment EXCEPT !.research_confidence = Len(enrichment.data_sources)]
    /\ research_pc' = "returned"
    /\ UNCHANGED <<comp, rsOthers, config, contact_data, source_outcomes, sources_invoked>>

(***************************************************************************)
(* process_csv_file, save_progress, save_results and the try block of main *)
(* (research-contact-enrichment.py:898-997, 1049-1065).                    *)
(***************************************************************************)
MaxRows == 20

\* Rows of the input DataFrame: every cell filled; the Organisation cell
\* empty; both name cells empty; a row of a frame without the name columns.
CsvRow ==
    [ok |-> ("First Name" :> "Jane") @@ ("Last Name" :> "Doe")
                @@ ("Organisation" :> "Department of Justice"),
     no_org |-> ("First Name" :> "Sam") @@ ("Last Name" :> "Lee")
                    @@ ("Organisation" :> NaNCell),
     no_names |-> ("First Name" :> NaNCell) @@ ("Last Name" :> NaNCell)
                      @@ ("Organisation" :> "Department of Justice"),
     no_columns |-> ("Organisation" :> "Department of Justice")]

\* The frames of up to MaxRows rows: all rows filled, all but one filled, or
\* no name column at all.
CsvFrames ==
    UNION {
        {[i \in 1..n |-> CsvRow.ok], [i \in 1..n |-> CsvRow.no_columns]}
        \cup {[i \in 1..n |-> IF i = k THEN odd ELSE CsvRow.ok] :
                  k \in 1..n, odd \in {CsvRow.no_org, CsvRow.no_names}}
        : n \in 1..MaxRows }

\* The run's Config (as main builds it every flag is True), and what each
\* source answers on every call of the run.
AllEnabled ==
    [enable_email_finding |-> TRUE, enable_linkedin_research |-> TRUE,
     enable_news_research |-> TRUE, enable_web_scraping |-> TRUE,
     enable_ai_analysis |-> TRUE, hunter_io_api_key |-> TRUE]

AllEvidence == [email |-> "emails", linkedin |-> "profile", web |-> "scraped", ai |-> "ok"]

\* "Skip empty rows", line 917: None (the default, modelled by '') and '' are
\* falsy, NaN is not.
SkipRow(row) == Get(row, "First Name", "") = "" /\ Get(row, "Last Name", "") = ""

\* The call of research_single_contact of line 921. With the list fields
\* as declared (lines 130-132) the constructor of line 780 raises; given the
\* defaults __post_init__ expects, an empty Organisation cell raises at line
\* 783 and every other row goes through the try block.
ResearchCall(row, ctor, cfg, out) ==
    LET constructed == IF ctor = "declared" THEN ContactEnrichment([original_data |-> row])
                       ELSE ConstructedEnrichment(row)
    IN  IF constructed.raised # "" THEN constructed
        ELSE IF Get(row, "Organisation", "") = NaNCell THEN [raised |-> "AttributeError"]
        ELSE TryBlock(constructed, cfg, out)

\* A CSV file: absent, written whole, or left partly written.
NoCsvFile == [state |-> "absent", rows |-> <<>>]

\* df_output.to_csv(filename) of line 993: the file is opened and written in
\* place. It is written whole; or open() raises and the file is as before; or
\* the write raises, or the process is interrupted, after open() truncated
\* the file.
WriteOutcomes == {"ok", "open_fails", "write_fails", "interrupted"}

ToCsv(old, contacts, outcome) ==
    CASE outcome = "ok" -> [state |-> "written", rows |-> contacts]
      [] outcome = "open_fails" -> old
      [] OTHER -> [state |-> "partial", rows |-> <<>>]

\* What save_results logs (lines 994-996); an interrupt is not an Exception
\* and is not caught there.
SaveLog(outcome, filename) ==
    CASE outcome = "ok" -> {"Saved " \o filename}
      [] outcome = "interrupted" -> {}
      [] OTHER -> {"Error saving CSV"}

\* Line 925, on the row label of the DataFrame
BatchSize == 10

\* What main prints on an interrupt (lines 1060-1062). Under asyncio.run the
\* interrupt reaches the coroutine as KeyboardInterrupt or, where the runner
\* cancels the main task instead, as CancelledError, which the clause does
\* not catch: the two lines are printed or not.
InterruptLog(printed) ==
    IF printed THEN {"Research interrupted by user",
                     "Progress has been saved to temporary files"}
    ELSE {}

\* pd.read_csv of lines 904-909
ReadInputCsv ==
    /\ csv_pc = "start"
    /\ \E read_ok \in BOOLEAN :
          IF read_ok
          THEN csv_pc' = "loop" /\ csv_log' = csv_log
          ELSE csv_pc' = "read_failed" /\ csv_log' = csv_log \cup {"Error reading CSV file"}
    /\ UNCHANGED <<comp, csvOthers, rsVars, enrichment_ctor, csv_rows, csv_index,
                   enriched_contacts, temp_file, output_file>>

\* One pass of the loop of lines 913-934 (the sleep of line 930 left out).
ProcessRow ==
    /\ csv_pc = "loop"
    /\ csv_index < Len(csv_rows)
    /\ csv_index' = csv_index + 1
    /\ LET index == csv_index
           row == csv_rows[csv_index + 1]
           result == ResearchCall(row, enrichment_ctor, config, source_outcomes)
       IN  IF SkipRow(row)
           THEN UNCHANGED <<enriched_contacts, temp_file, csv_pc, csv_log>>
           ELSE IF result.raised # ""
           THEN /\ csv_log' = csv_log \cup {"Error processing contact"}
                /\ UNCHANGED <<enriched_contacts, temp_file, csv_pc>>
           ELSE /\ enriched_contacts' = Append(enriched_contacts, result)
                /\ IF (index + 1) % BatchSize = 0
                   THEN \E outcome \in WriteOutcomes :
                           /\ temp_file' = ToCsv(temp_file, enriched_contacts', outcome)
                           /\ \E printed \in BOOLEAN :
                                  csv_log' = csv_log \cup SaveLog(outcome, "temp")
                                      \cup (IF outcome = "interrupted"
                                            THEN InterruptLog(printed) ELSE {})
                           /\ csv_pc' = IF outcome = "interrupted" THEN "interrupted"
                                        ELSE "loop"
                   ELSE UNCHANGED <<temp_file, csv_pc, csv_log>>
    /\ UNCHANGED <<comp, csvOthers, rsVars, enrichment_ctor, csv_rows, output_file>>

\* "Save final results", lines 937-938
SaveFinalResults ==
    /\ csv_pc = "loop"
    /\ csv_index = Len(csv_rows)
    /\ \E outcome \in WriteOutcomes :
          /\ output_file' = ToCsv(output_file, enriched_contacts, outcome)
          /\ IF outcome = "interrupted"
             THEN /\ csv_pc' = "interrupted"
                  /\ \E printed \in BOOLEAN : csv_log' = csv_log \cup InterruptLog(printed)
             ELSE /\ csv_pc' = "returned"
                  /\ csv_log' = csv_log \cup SaveLog(outcome, "output")
                                \cup {"Research complete! Results saved"}
    /\ UNCHANGED <<comp, csvOthers, rsVars, enrichment_ctor, csv_rows, csv_index,
                   enriched_contacts, temp_file>>

\* main after process_csv_file returned, lines 1052-1060
ReportCompleted ==
    /\ csv_pc \in {"returned", "read_failed"}
    /\ csv_pc' = "exit"
    /\ csv_log' = csv_log \cup {"Research completed successfully!"}
    /\ UNCHANGED <<comp, csvOthers, rsVars, enrichment_ctor, csv_rows, csv_index,
                   enriched_contacts, temp_file, output_file>>

\* Ctrl-C while a contact is researched or the loop sleeps: the interrupt
\* passes the `except Exception` clauses and nothing is written.
Interrupt ==
    /\ csv_pc \in {"start", "loop"}
    /\ csv_pc' = "interrupted"
    /\ \E printed \in BOOLEAN : csv_log' = csv_log \cup InterruptLog(printed)
    /\ UNCHANGED <<comp, csvOthers, rsVars, enrichment_ctor, csv_rows, csv_index,
                   enriched_contacts, temp_file, output_file>>

(***************************************************************************)
(* The lookups of the research sources: WebScraper.scrape_url (309-371),   *)
(* EmailFinder.find_emails_hunter_io (413-448),                            *)
(* LinkedInResearcher.search_linkedin_profile (509-564) and                *)
(* NewsResearcher.search_news_mentions (575-607), with the Hunter.io key   *)
(* and the LinkedIn credentials set. Time in seconds; every CacheManager   *)
(* works on the same cache_dir, so the sources share the cache files. The  *)
(* only RateLimiter a lookup calls is the one of the orchestrator's        *)
(* WebScraper (lines 290, 762). session.get counts as one attempt, the     *)
(* adapter's retries left out.                                             *)
(***************************************************************************)
MaxCalls == 4
LookupHorizon == 130

\* The cache key of each source's lookup (lines 312, 418, 514, 577).
LookupKey ==
    [scrape |-> "https://www.abc.org.au", hunter_io |-> "hunter_abc.org.au_Jane_Doe",
     linkedin |-> "linkedin_Jane Doe_ABC", news |-> "news_Jane Doe_ABC"]

\* What each lookup builds from the response it gets.
LookupResult ==
    [page |-> PyDict(<<PyStr("url"), PyStr("https://www.abc.org.au"),
                       PyStr("title"), PyStr("ABC")>>),
     email |-> PyList(<<PyTuple(<<PyStr("jane@abc.org.au"), PyNum("0.9")>>)>>),
     no_email |-> PyList(<<>>),
     profile |-> PyDict(<<PyStr("linkedin_url"), PyStr("https://linkedin.com/in/jane-doe"),
                          PyStr("headline"), PyStr("Director")>>),
     mentions |-> PyList(<<PyDict(<<PyStr("title"),
                                    PyStr("Search result for Jane Doe on site:abc.net.au"),
                                    PyStr("sentiment"), PyStr("neutral")>>)>>)]

\* `if cached:` on what CacheManager.get returned
PyTruthy(v) ==
    CASE v.type = "NoneType" -> FALSE
      [] v.type \in {"list", "tuple", "dict"} -> v.items # <<>>
      [] v.type = "str" -> v.val # ""
      [] OTHER -> TRUE

\* CacheManager.get with the clock in seconds (lines 258-272)
LookupGet(file, now) ==
    IF file.state = "ok" /\ now - file.timestamp < TTLHours * HourWindow
    THEN JsonLoad(file.content)
    ELSE None

\* The network attempts of one lookup added to the history, with whether
\* the lookup called wait_if_needed before them.
Attempts(source, n, at, reserved) ==
    [i \in 1..n |-> [source |-> source, at |-> at, reserved |-> reserved]]

\* The record of a lookup: whether the cache held a fresh entry for the key
\* before it, the calls it made and what it returned.
LookupRecord(source, key, calls, ret) ==
    [source |-> source, key |-> key,
     had |-> lk_cache[key].state = "ok"
             /\ clock - lk_cache[key].timestamp < TTLHours * HourWindow,
     cached |-> LookupGet(lk_cache[key], clock), calls |-> calls, ret |-> ret]

scrape_url ==
    /\ comp = "lookup"
    /\ LET cached == LookupGet(lk_cache[LookupKey.scrape], clock)
           now == clock
           mr  == CleanOld(minute_requests, now, MinuteWindow)
           hr  == CleanOld(hour_requests, now, HourWindow)
           w1  == WaitTime(mr, now, requests_per_minute, MinuteWindow)
           w2  == WaitTime(hr, now, requests_per_hour, HourWindow)
       IN  IF PyTruthy(cached)
           THEN /\ lk_last' = LookupRecord("scrape", LookupKey.scrape, 0, cached)
                /\ UNCHANGED <<clock, rlVars, lk_cache, net_calls>>
           ELSE /\ now + w1 + w2 <= LookupHorizon
                /\ Len(net_calls) < MaxCalls
                /\ clock' = now + w1 + w2
                /\ minute_requests' = Append(mr, RecordedTime(now, w1 + w2))
                /\ hour_requests' = Append(hr, RecordedTime(now, w1 + w2))
                /\ net_calls' = net_calls \o Attempts("scrape", 1, clock', TRUE)
                /\ \E response \in {"page", "error"}, outcome \in {"ok", "open_fails"} :
                      IF response = "page"
                      THEN /\ lk_cache' = [lk_cache EXCEPT ![LookupKey.scrape] =
                                               WrittenFile(@, LookupResult.page, clock', outcome)]
                           /\ lk_last' = LookupRecord("scrape", LookupKey.scrape, 1, LookupResult.page)
                      ELSE /\ lk_cache' = lk_cache
                           /\ lk_last' = LookupRecord("scrape", LookupKey.scrape, 1, None)
    /\ UNCHANGED <<comp, lkOthers>>

find_emails_hunter_io ==
    /\ comp = "lookup"
    /\ LET cached == LookupGet(lk_cache[LookupKey.hunter_io], clock)
       IN  IF PyTruthy(cached)
           THEN /\ lk_last' = LookupRecord("hunter_io", LookupKey.hunter_io, 0, cached)
                /\ UNCHANGED <<lk_cache, net_calls>>
           ELSE /\ Len(net_calls) < MaxCalls
                /\ net_calls' = net_calls \o Attempts("hunter_io", 1, clock, FALSE)
                /\ \E response \in {"email", "no_email", "error"},
                      outcome \in {"ok", "open_fails"} :
                      IF response = "error"
                      THEN /\ lk_cache' = lk_cache
                           /\ lk_last' = LookupRecord("hunter_io", LookupKey.hunter_io, 1, PyList(<<>>))
                      ELSE /\ lk_cache' = [lk_cache EXCEPT ![LookupKey.hunter_io] =
                                   WrittenFile(@, LookupResult[response], clock, outcome)]
                           /\ lk_last' = LookupRecord("hunter_io", LookupKey.hunter_io, 1,
                                                      LookupResult[response])
    /\ UNCHANGED <<comp, clock, rlVars, lkOthers>>

\* search_people, then get_profile for the best match
search_linkedin_profile ==
    /\ comp = "lookup"
    /\ LET cached == LookupGet(lk_cache[LookupKey.linkedin], clock)
       IN  IF PyTruthy(cached)
           THEN /\ lk_last' = LookupRecord("linkedin", LookupKey.linkedin, 0, cached)
                /\ UNCHANGED <<lk_cache, net_calls>>
           ELSE \E response \in {"profile", "no_results", "error"},
                   outcome \in {"ok", "open_fails"} :
                   LET calls == IF response = "profile" THEN 2 ELSE 1
                   IN  /\ Len(net_calls) + calls <= MaxCalls
                       /\ net_calls' = net_calls \o Attempts("linkedin", calls, clock, FALSE)
                       /\ IF response = "profile"
                          THEN /\ lk_cache' = [lk_cache EXCEPT ![LookupKey.linkedin] =
                                       WrittenFile(@, LookupResult.profile, clock, outcome)]
                               /\ lk_last' = LookupRecord("linkedin", LookupKey.linkedin, calls,
                                                          LookupResult.profile)
                          ELSE /\ lk_cache' = lk_cache
                               /\ lk_last' = LookupRecord("linkedin", LookupKey.linkedin, calls, None)
    /\ UNCHANGED <<comp, clock, rlVars, lkOthers>>

\* Placeholder mentions, no request sent
search_news_mentions ==
    /\ comp = "lookup"
    /\ LET cached == LookupGet(lk_cache[LookupKey.news], clock)
       IN  IF PyTruthy(cached)
           THEN /\ lk_last' = LookupRecord("news", LookupKey.news, 0, cached)
                /\ UNCHANGED lk_cache
           ELSE \E outcome \in {"ok", "open_fails"} :
                   /\ lk_cache' = [lk_cache EXCEPT ![LookupKey.news] =
                                       WrittenFile(@, LookupResult.mentions, clock, outcome)]
                   /\ lk_last' = LookupRecord("news", LookupKey.news, 0, LookupResult.mentions)
    /\ UNCHANGED <<comp, clock, rlVars, net_calls, lkOthers>>

\* Time passing between two lookups.
TickLookup ==
    /\ comp = "lookup"
    /\ \E d \in {MinuteWindow + 1} :
          /\ clock + d <= LookupHorizon
          /\ clock' = clock + d
    /\ UNCHANGED <<comp, rlVars, lkVars, lkOthers>>

(***************************************************************************)
(* Cache keys: the key strings the sources build (lines 312, 418, 514,     *)
(* 577) and the file CacheManager derives from them (lines 253-259).       *)
(***************************************************************************)
NoWriter == [source |-> "none", a |-> "", b |-> "", c |-> ""]

\* The lookups: the source and its query components, (domain, first name,
\* last name) for Hunter.io, (name, organisation) for LinkedIn and news, the
\* URL for a scrape.
QuerySignatures ==
    {[source |-> "hunter_io", a |-> "abc.org.au", b |-> n[1], c |-> n[2]] :
         n \in {<<"Mary", "Ann_Lee">>, <<"Mary_Ann", "Lee">>, <<"Mary", "Lee">>}}
    \cup {[source |-> s, a |-> n[1], b |-> n[2], c |-> ""] :
              s \in {"linkedin", "news"},
              n \in {<<"Jane Doe", "ABC">>, <<"Jane Doe", "">>, <<"Jane Doe", "ABC_Legal">>,
                     <<"Jane Doe_ABC", "Legal">>}}
    \cup {[source |-> "scrape", a |-> u, b |-> "", c |-> ""] :
              u \in {"https://www.abc.org.au", "https://www.abc.com.au"}}

\* The f-strings of lines 418, 514 and 577; scrape_url passes the URL itself.
QueryKey(q) ==
    CASE q.source = "hunter_io" -> "hunter_" \o q.a \o "_" \o q.b \o "_" \o q.c
      [] q.source = "linkedin" -> "linkedin_" \o q.a \o "_" \o q.b
      [] q.source = "news" -> "news_" \o q.a \o "_" \o q.b
      [] q.source = "scrape" -> q.a

QueryFile(q) == CacheFile(QueryKey(q))

\* cache.set(cache_key, result) by the lookup q
KeyedSet(q) ==
    /\ comp = "keys"
    /\ key_store' = [key_store EXCEPT ![QueryFile(q)] = q]
    /\ UNCHANGED <<comp, clock, keyOthers, key_read>>

\* cache.get(cache_key) by the lookup q
KeyedGet(q) ==
    /\ comp = "keys"
    /\ key_read' = [by |-> q, wrote |-> key_store[QueryFile(q)]]
    /\ UNCHANGED <<comp, clock, keyOthers, key_store>>

(***************************************************************************)
(* DatabaseManager.merge_contacts (process-new-email-contacts.py:443-459). *)
(***************************************************************************)
MaxExisting == 3
MaxNew == 2

\* Rows of the master CSV as load_existing_contacts reads them: an empty
\* e-mail cell is NaN.
ExistingRows ==
    {[name |-> StrCell("Ann Lee"), email |-> NaN],
     [name |-> StrCell("Bob Ray"), email |-> NaN],
     [name |-> StrCell("Cy Young"), email |-> StrCell("cy@x.org")],
     [name |-> StrCell("C. Young"), email |-> StrCell("cy@x.org")]}

\* The frames of up to n distinct rows, and the lists of up to n distinct
\* e-mails parse_email_list hands on.
Injective(s) == \A i, j \in DOMAIN s : s[i] = s[j] => i = j

ExistingFrames ==
    {s \in UNION {[1..n -> ExistingRows] : n \in 0..MaxExisting} : Injective(s)}

NewEmailLists ==
    {s \in UNION {[1..n -> {"cy@x.org", "dee@y.org"}] : n \in 0..MaxNew} : Injective(s)}

\* asdict(profile) of a profile built by extract_basic_info(email)
ProfileRow(email) == [name |-> StrCell(""), email |-> StrCell(email)]

\* drop_duplicates(subset=['email'], keep='last'): the last row of each
\* e-mail value; pandas counts NaN cells as equal to each other.
DropDuplicatesLast(df) ==
    LET keepIdx == {i \in DOMAIN df : \A j \in (i + 1)..Len(df) : df[j].email # df[i].email}
        RECURSIVE Pick(_)
        Pick(i) == IF i > Len(df) THEN <<>>
                   ELSE (IF i \in keepIdx THEN <<df[i]>> ELSE <<>>) \o Pick(i + 1)
    IN  Pick(1)

\* The rows merge_contacts concatenates.
Concatenated == existing_df \o [i \in DOMAIN new_profiles |-> ProfileRow(new_profiles[i])]

\* With no existing row and no new profile the frame has no 'email' column
\* and drop_duplicates raises KeyError.
merge_contacts ==
    /\ comp = "merge"
    /\ merge_pc = "ready"
    /\ IF Concatenated = <<>>
       THEN merge_pc' = "raised" /\ merged_df' = merged_df
       ELSE merge_pc' = "merged" /\ merged_df' = DropDuplicatesLast(Concatenated)
    /\ UNCHANGED <<comp, mergeOthers, existing_df, new_profiles>>

(***************************************************************************)
(* RateLimiter.wait_if_needed statement by statement                       *)
(* (research-contact-enrichment.py:219-243), one caller at a time as in    *)
(* process_csv_file. asyncio.sleep(wait_time) returns when the clock has   *)
(* reached the wake-up time.                                               *)
(***************************************************************************)
MaxWaits == 4

\* Lines 221-225: read the clock, clean both lists.
StartCall ==
    /\ comp = "limiter_steps"
    /\ rl_pc \in {"idle", "returned"}
    /\ rl_calls < MaxWaits
    /\ rl_calls' = rl_calls + 1
    /\ rl_now' = clock
    /\ minute_requests' = CleanOld(minute_requests, clock, MinuteWindow)
    /\ hour_requests' = CleanOld(hour_requests, clock, HourWindow)
    /\ rl_checks' = {}
    /\ rl_slept' = FALSE
    /\ rl_pc' = "minute_check"
    /\ UNCHANGED <<comp, clock, rl_wake, stepOthers>>

\* Lines 228-232 and 235-239: one limit check; a positive wait_time starts
\* a sleep.
LimitCheck(check, reqs, cap, window, next) ==
    /\ comp = "limiter_steps"
    /\ rl_pc = check
    /\ rl_checks' = rl_checks \cup {check}
    /\ LET wait_time == WaitTime(reqs, rl_now, cap, window)
       IN  IF wait_time > 0
           THEN rl_pc' = "sleep_" \o check /\ rl_wake' = clock + wait_time
           ELSE rl_pc' = next /\ rl_wake' = rl_wake
    /\ UNCHANGED <<comp, clock, rlVars, rl_now, rl_slept, rl_calls, stepOthers>>

MinuteCheck ==
    LimitCheck("minute_check", minute_requests, requests_per_minute, MinuteWindow, "hour_check")

HourCheck ==
    LimitCheck("hour_check", hour_requests, requests_per_hour, HourWindow, "record")

\* await asyncio.sleep(wait_time) returns (lines 232, 239).
SleepReturns ==
    /\ comp = "limiter_steps"
    /\ rl_pc \in {"sleep_minute_check", "sleep_hour_check"}
    /\ clock' = IF clock < rl_wake THEN rl_wake ELSE clock
    /\ rl_slept' = TRUE
    /\ rl_pc' = IF rl_pc = "sleep_minute_check" THEN "hour_check" ELSE "record"
    /\ UNCHANGED <<comp, rlVars, rl_now, rl_wake, rl_checks, rl_calls, stepOthers>>

\* The request recorded twice in a list
Recorded_Twice(reqs, now) == Append(Append(reqs, now), now)

\* "Record this request", lines 242-243, for one list
Recorded(reqs, now) == Append(reqs, now)

RecordRequest ==
    /\ comp = "limiter_steps"
    /\ rl_pc = "record"
    /\ minute_requests' = Recorded(minute_requests, rl_now)
    /\ hour_requests' = Recorded(hour_requests, rl_now)
    /\ rl_pc' = "returned"
    /\ UNCHANGED <<comp, clock, rl_now, rl_wake, rl_checks, rl_slept, rl_calls, stepOthers>>

\* Time passing between two calls.
TickSteps ==
    /\ comp = "limiter_steps"
    /\ rl_pc \in {"idle", "returned"}
    /\ \E d \in TickSet :
          /\ clock + d <= MaxClock
          /\ clock' = clock + d
    /\ UNCHANGED <<comp, rlVars, stepVars, stepOthers>>

(***************************************************************************)
(* consolidate-youth-justice-contacts.py: the five file processors and     *)
(* consolidate_all_files.  A contact keeps the fields the derived values   *)
(* and the duplicate removal read.                                          *)
(***************************************************************************)
\* __init__, "Mapping for sector standardization", in dict order
sector_mapping == <<
    [sector |-> "government",
     keywords |-> <<"politician", "minister", "mp", "senator", "council", "commission", "department">>],
    [sector |-> "media",
     keywords |-> <<"journalist", "reporter", "editor", "producer", "abc", "sbs", "nine", "seven", "ten", "radio">>],
    [sector |-> "ngo",
     keywords |-> <<"foundation", "charity", "advocacy", "rights", "coalition", "community">>],
    [sector |-> "philanthropy",
     keywords |-> <<"foundation", "philanthropist", "donor", "grant", "funding">>],
    [sector |-> "academic",
     keywords |-> <<"university", "professor", "researcher", "phd", "dr", "academic", "research">>],
    [sector |-> "legal",
     keywords |-> <<"judge", "magistrate", "lawyer", "barrister", "solicitor", "court", "legal">>],
    [sector |-> "corporate",
     keywords |-> <<"ceo", "director", "manager", "executive", "business", "corporate", "company">>],
    [sector |-> "civil_society",
     keywords |-> <<"activist", "advocate", "organiser", "campaigner", "community leader">>] >>

\* __init__, "Keywords for youth justice relevance scoring"
youth_justice_keywords ==
    [high |-> <<"youth justice", "juvenile", "detention", "children court", "youth crime",
                "justice reinvestment">>,
     medium |-> <<"crime prevention", "rehabilitation", "diversion", "restorative justice",
                  "indigenous justice">>,
     low |-> <<"social work", "community", "education", "welfare", "support services">>]

\* __init__, "Indigenous indicators"
indigenous_indicators == <<
    "aboriginal", "torres strait", "indigenous", "first nations", "koori", "murri", "noongar",
    "yolngu", "anangu", "palawa", "tiwi", "yarrabah", "mob", "blackfella" >>

\* str.title(): a letter is upper-cased after a non-letter, lower-cased
\* after a letter; '_' is replaced by ' ' first where the code does so.
Title(s) ==
    LET letter(c) == c \in UpperSet \/ c \in {Char(LowerChars, i) : i \in 1..Len(LowerChars)}
        upper(c) == IF c \in UpperSet \/ ~letter(c) THEN c
                    ELSE Char(UpperChars, CHOOSE i \in 1..Len(LowerChars) : Char(LowerChars, i) = c)
        at(i) == IF i = 1 \/ ~letter(Char(s, i - 1)) THEN upper(Char(s, i))
                 ELSE LowerChar(Char(s, i))
        RECURSIVE from(_)
        from(i) == IF i > Len(s) THEN "" ELSE at(i) \o from(i + 1)
    IN  from(1)

\* sector.replace('_', ' ')
ReplaceUnderscore(s) ==
    LET RECURSIVE from(_)
        from(i) == IF i > Len(s) THEN ""
                   ELSE (IF Char(s, i) = "_" THEN " " ELSE Char(s, i)) \o from(i + 1)
    IN  from(1)

standardize_sector(title, organisation, description) ==
    LET text == Lower(title \o " " \o organisation \o " " \o description)
        hits == {i \in DOMAIN sector_mapping : AnyIn(sector_mapping[i].keywords, text)}
    IN  IF hits = {} THEN "Other"
        ELSE Title(ReplaceUnderscore(sector_mapping[CHOOSE i \in hits : \A j \in hits : i <= j].sector))

calculate_relevance_score(title, organisation, description) ==
    LET text == Lower(title \o " " \o organisation \o " " \o description)
        sector == standardize_sector(title, organisation, description)
    IN  IF AnyIn(youth_justice_keywords.high, text) THEN 10
        ELSE IF AnyIn(youth_justice_keywords.medium, text) THEN 7
        ELSE IF AnyIn(youth_justice_keywords.low, text) THEN 5
        ELSE IF sector \in {"Legal", "Government"} THEN 6
        ELSE IF sector \in {"Academic", "Media"} THEN 4
        ELSE 3

detect_indigenous_affiliation(text) ==
    IF text = "" THEN "Unknown"
    ELSE IF AnyIn(indigenous_indicators, Lower(text)) THEN "Yes"
    ELSE IF Contains(Lower(text), "non-indigenous") \/ Contains(Lower(text), "not indigenous")
         THEN "No"
    ELSE "Unknown"

determine_engagement_priority(relevance_score, sector, indigenous_affiliation) ==
    IF relevance_score >= 8 \/ sector \in {"Legal", "Government"} \/ indigenous_affiliation = "Yes"
    THEN "High"
    ELSE IF relevance_score >= 5 \/ sector \in {"Media", "Academic", "NGO"} THEN "Medium"
    ELSE "Low"

\* consolidate_all_files, "File processing map", in dict order
file_processors == <<
    "process_people_csv", "process_expanded_media_csv", "process_every_contact_csv",
    "process_more_contained_csv", "process_contained_people_csv" >>

\* A row of an input file, its columns named by what the processors use
\* them for: Description is the Tag, Sector/Type, Category or Focus Area
\* column, Relevance the Source or Relevance column of the file.
FileRow(n, t, o, d, r, i) ==
    [Name |-> n, Title |-> t, Organisation |-> o, Description |-> d, Relevance |-> r,
     Indigenous |-> i]

\* str(row.get(column, '')).strip(): an empty cell is NaN and reads "nan"
CellText(cell) == Strip(IF cell.na THEN "nan" ELSE cell.s)

\* The body of the row loop of a processor, lines 254-311 (people), 331-384,
\* 404-457, 477-527 and 547-609 (contained people).
BuildContact(processor, row) ==
    LET people == processor = "process_people_csv"
        contained == processor = "process_contained_people_csv"
        name == CellText(row.Name)
        title == CellText(row.Title)
        organisation == IF processor = "process_more_contained_csv" THEN ""
                        ELSE CellText(row.Organisation)
        description == CellText(row.Description)
        relevance == CellText(row.Relevance)
        sector == standardize_sector(title, organisation, description)
        relevance_score ==
            calculate_relevance_score(title, organisation,
                                      IF people \/ contained THEN description ELSE relevance)
        indigenous_affiliation ==
            IF contained THEN CellText(row.Indigenous)
            ELSE IF people
                 THEN detect_indigenous_affiliation(name \o " " \o description \o " " \o relevance)
            ELSE detect_indigenous_affiliation(name \o " " \o relevance)
        \* "Standardize indigenous affiliation", contained people only
        indigenous_status ==
            IF ~contained THEN indigenous_affiliation
            ELSE IF Lower(indigenous_affiliation) \in {"yes", "no"}
                 THEN Title(indigenous_affiliation)
            ELSE IF AnyIn(indigenous_indicators, Lower(indigenous_affiliation)) THEN "Yes"
            ELSE "Unknown"
    IN  [name |-> name, organisation |-> organisation, sector |-> sector,
         indigenous_affiliation |-> indigenous_status, relevance_score |-> relevance_score,
         engagement_priority |->
             determine_engagement_priority(relevance_score, sector, indigenous_affiliation),
         source_file |-> processor]

RECURSIVE ProcessedFrom(_, _, _)
\* The row loop of a processor from row i on; a row without a name is skipped.
ProcessedFrom(processor, df, i) ==
    IF i > Len(df) THEN <<>>
    ELSE (IF CellText(df[i].Name) \in {"", "nan"} THEN <<>>
          ELSE <<BuildContact(processor, df[i])>>) \o ProcessedFrom(processor, df, i + 1)

\* Input files: absent from the input directory, or a frame of rows.  The
\* rows: affiliation given as 'Yes', as 'yes' and as a people's name; a
\* contact described as Aboriginal; a magistrate; a community worker marked
\* 'No'; a row without a name.
InputFiles ==
    LET file(rows) == [exists |-> TRUE, rows |-> rows]
        ann == FileRow(StrCell("Ann Lee"), StrCell("Teacher"), StrCell("Hill School"),
                       NaN, NaN, StrCell("Yes"))
        kim == FileRow(StrCell("Kim Ray"), StrCell("Teacher"), StrCell("Hill School"),
                       NaN, NaN, StrCell("yes"))
        lou == FileRow(StrCell("Lou Ward"), StrCell("Artist"), NaN,
                       NaN, NaN, StrCell("Noongar"))
        bob == FileRow(StrCell("Bob Hill"), StrCell("Elder"), NaN,
                       NaN, StrCell("Aboriginal elder"), NaN)
        eve == FileRow(StrCell("Eve Fox"), StrCell("Magistrate"), StrCell("Hill School"),
                       NaN, NaN, NaN)
        sam == FileRow(StrCell("Sam Orr"), StrCell("Youth worker"), StrCell("Shelter"),
                       StrCell("welfare"), NaN, StrCell("No"))
        anon == FileRow(NaN, StrCell("Teacher"), NaN, NaN, NaN, StrCell("Yes"))
    IN  { [exists |-> FALSE, rows |-> <<>>], file(<<ann, bob>>), file(<<kim, eve>>),
          file(<<lou, sam>>), file(<<anon, ann>>), file(<<bob>>) }

\* Code-point order of the characters of the names
OrdChars == " " \o UpperChars \o LowerChars

\* a < b for two strings
StrLess(a, b) ==
    LET ord(c) == CHOOSE i \in 1..Len(OrdChars) : Char(OrdChars, i) = c
        diff == {i \in 1..Len(a) : i <= Len(b) /\ Char(a, i) # Char(b, i)}
    IN  IF diff = {} THEN Len(a) < Len(b)
        ELSE LET i == CHOOSE k \in diff : \A j \in diff : k <= j
             IN  ord(Char(a, i)) < ord(Char(b, i))

RECURSIVE SortContacts(_)
\* unique_contacts.sort(key=lambda x: (-x['relevance_score'], x['name'])),
\* a stable sort: a contact goes behind those whose key is not greater.
SortContacts(contacts) ==
    IF contacts = <<>> THEN <<>>
    ELSE LET sorted == SortContacts(SubSeq(contacts, 1, Len(contacts) - 1))
             c == contacts[Len(contacts)]
             less(a, b) == \/ a.relevance_score > b.relevance_score
                           \/ /\ a.relevance_score = b.relevance_score
                              /\ StrLess(a.name, b.name)
             k == Cardinality({i \in DOMAIN sorted : ~less(c, sorted[i])})
         IN  SubSeq(sorted, 1, k) \o <<c>> \o SubSeq(sorted, k + 1, Len(sorted))

\* consolidate_all_files, one turn of "Process each file": a file that is
\* absent adds nothing.
ProcessFile ==
    /\ comp = "consolidate"
    /\ cons_pc \in DOMAIN file_processors
    /\ \E file \in InputFiles :
          all_contacts' =
              all_contacts \o (IF file.exists
                               THEN ProcessedFrom(file_processors[cons_pc], file.rows, 1)
                               ELSE <<>>)
    /\ cons_pc' = cons_pc + 1
    /\ UNCHANGED <<comp, master_contacts, consOthers>>

\* consolidate_all_files after the loop: remove duplicates, sort, assign.
FinishConsolidation ==
    /\ comp = "consolidate"
    /\ cons_pc = Len(file_processors) + 1
    /\ master_contacts' = SortContacts(remove_duplicates(all_contacts))
    /\ cons_pc' = cons_pc + 1
    /\ UNCHANGED <<comp, all_contacts, consOthers>>

(***************************************************************************)
(* infrastructure/agents/python/shared/base_agent.py: BaseAgent with its   *)
(* lifecycle and process_message.                                           *)
(***************************************************************************)
MaxMessages == 4

\* models.py, AgentMessage: the fields process_message reads
AgentMessages ==
    [message_id : {"m"}, conversation_id : {"conv-1", "conv-2"}]

\* What a subclass's _handle_message can do with a message: return response
\* data (content a string, content absent, content None as the OpenAI client
\* types it, or no dict at all), raise an Exception, or be cancelled at an
\* await (asyncio.CancelledError, a BaseException).
HandlerOutcomes == {
    [kind |-> "returned", data |-> "content: str"],
    [kind |-> "returned", data |-> "no content key"],
    [kind |-> "returned", data |-> "content: None"],
    [kind |-> "returned", data |-> "not a dict"],
    [kind |-> "raised", data |-> "ValueError"],
    [kind |-> "cancelled", data |-> "CancelledError"] }

\* An AgentResponse, models.py lines 55-66, as far as process_message sets it
AgentResponse(conversation_id, content, success) ==
    [conversation_id |-> conversation_id, content |-> content, success |-> success]

NoResponse == AgentResponse("", "", FALSE)

NoCall ==
    [call |-> 0, message |-> [message_id |-> "", conversation_id |-> ""],
     handler |-> [kind |-> "", data |-> ""], returned |-> FALSE, response |-> NoResponse]

\* The exception the try block of process_message ends with, "" for none:
\* the handler's own, AttributeError of `.get` on data that is no dict, or
\* the ValidationError of AgentResponse for a content that is no string.
TryBlockError(outcome) ==
    CASE outcome.kind = "raised" -> outcome.data
      [] outcome.kind = "cancelled" -> outcome.data
      [] outcome.data = "not a dict" -> "AttributeError"
      [] outcome.data = "content: None" -> "ValidationError"
      [] OTHER -> ""

\* process_message without its except clause
Outcome_NoExcept(message, outcome) ==
    IF TryBlockError(outcome) = ""
    THEN [returned |-> TRUE, failed |-> FALSE,
          response |-> AgentResponse(message.conversation_id,
                                     IF outcome.data = "no content key" THEN "" ELSE "text",
                                     TRUE)]
    ELSE [returned |-> FALSE, failed |-> FALSE, response |-> NoResponse]

\* What a call of process_message ends with, lines 123-159: the response
\* of the try block, the error response of `except Exception`, or an
\* exception that is no Exception and passes through.
Outcome(message, outcome) ==
    LET error == TryBlockError(outcome)
    IN  IF error = ""
        THEN [returned |-> TRUE, failed |-> FALSE,
              response |-> AgentResponse(message.conversation_id,
                                         IF outcome.data = "no content key" THEN "" ELSE "text",
                                         TRUE)]
        ELSE IF outcome.kind = "cancelled"
        THEN [returned |-> FALSE, failed |-> FALSE, response |-> NoResponse]
        ELSE [returned |-> TRUE, failed |-> TRUE,
              response |-> AgentResponse(message.conversation_id,
                                         "Error processing message: " \o error, FALSE)]

\* BaseAgent.process_message; _update_heartbeat reads a clock that has not
\* gone back.
process_message ==
    /\ comp = "agent"
    /\ metrics.messages_processed < MaxMessages
    /\ \E message \in AgentMessages, outcome \in HandlerOutcomes, now \in 0..1 :
          LET end == Outcome(message, outcome)
          IN  /\ metrics' = [messages_processed |-> metrics.messages_processed + 1,
                             errors |-> metrics.errors + (IF end.failed THEN 1 ELSE 0)]
              /\ last_heartbeat' = last_heartbeat + now
              /\ pm_result' = [call |-> pm_result.call + 1, message |-> message,
                               handler |-> outcome, returned |-> end.returned,
                               response |-> end.response]
    /\ UNCHANGED <<comp, agent_status, agentOthers>>

\* BaseAgent.initialize: _setup returns or raises
initialize ==
    /\ comp = "agent"
    /\ agent_status' \in {"ready", "error"}
    /\ UNCHANGED <<comp, metrics, last_heartbeat, pm_result, agentOthers>>

\* BaseAgent.start up to the call of _run: an agent that is not ready is
\* initialised first, and start ends there if that fails.
start ==
    /\ comp = "agent"
    /\ agent_status' \in (IF agent_status = "ready" THEN {"running"} ELSE {"running", "error"})
    /\ UNCHANGED <<comp, metrics, last_heartbeat, pm_result, agentOthers>>

\* BaseAgent.start, `except Exception` around _run
RunRaises ==
    /\ comp = "agent"
    /\ agent_status = "running"
    /\ agent_status' = "error"
    /\ UNCHANGED <<comp, metrics, last_heartbeat, pm_result, agentOthers>>

\* BaseAgent.stop: _cleanup returns or raises
stop ==
    /\ comp = "agent"
    /\ agent_status' \in {"stopped", "error"}
    /\ UNCHANGED <<comp, metrics, last_heartbeat, pm_result, agentOthers>>

(***************************************************************************)
(* Specifications: one per component.                                      *)
(***************************************************************************)
\* BEGIN-SPECS
RLIdle == minute_requests = <<>> /\ hour_requests = <<>>

CacheIdle ==
    /\ cache_files = [f \in CacheFileNames |-> NoFile]
    /\ last_set = [k \in CacheKeys |-> NeverSet]
    /\ last_op = "none"
    /\ get_key = ""
    /\ get_ret = None

DedupeIdle ==
    /\ dd_input = <<>>
    /\ dd_algo = "none"
    /\ dd_stage = "idle"
    /\ dd_out = <<>>
    /\ dd_again = <<>>
    /\ dd_perm = <<>>
    /\ dd_perm_out = <<>>

ScoringIdle == contacts_df = <<>> /\ scores_data = <<>>

CategorizeIdle == score_vector = NoStrategy /\ strategy = NoStrategy

ResearchIdle ==
    /\ config = [f \in {} |-> FALSE]
    /\ contact_data = [f \in {} |-> ""]
    /\ research_pc = "idle"
    /\ enrichment = NoEnrichment
    /\ source_outcomes = [f \in {} |-> ""]
    /\ sources_invoked = <<>>

CsvIdle ==
    /\ enrichment_ctor = "" /\ csv_rows = <<>> /\ csv_index = 0 /\ enriched_contacts = <<>>
    /\ temp_file = NoCsvFile /\ output_file = NoCsvFile /\ csv_pc = "idle" /\ csv_log = {}

LookupIdle ==
    /\ lk_cache = [k \in Range(LookupKey) |-> NoFile]
    /\ net_calls = <<>>
    /\ lk_last = [source |-> "none", key |-> "", had |-> FALSE, cached |-> None,
                  calls |-> 0, ret |-> None]

KeysIdle ==
    /\ key_store = [f \in {} |-> NoWriter]
    /\ key_read = [by |-> NoWriter, wrote |-> NoWriter]

MergeIdle ==
    /\ existing_df = <<>> /\ new_profiles = <<>> /\ merged_df = <<>> /\ merge_pc = "idle"

StepsIdle ==
    /\ rl_pc = "idle" /\ rl_now = 0 /\ rl_wake = 0 /\ rl_checks = {} /\ rl_slept = FALSE
    /\ rl_calls = 0

ConsIdle ==
    /\ cons_pc = 0
    /\ all_contacts = <<>>
    /\ master_contacts = <<>>

AgentIdle ==
    /\ agent_status = ""
    /\ metrics = [messages_processed |-> 0, errors |-> 0]
    /\ last_heartbeat = 0
    /\ pm_result = NoCall

\* END-IDLE

InitRL ==
    /\ comp = "rate_limiter"
    /\ clock = 0
    /\ AgentIdle
    /\ ConsIdle
    /\ StepsIdle
    /\ MergeIdle
    /\ KeysIdle
    /\ CsvIdle
    /\ LookupIdle
    /\ minute_requests = <<>>
    /\ hour_requests = <<>>
    /\ CacheIdle
    /\ DedupeIdle
    /\ ScoringIdle
    /\ CategorizeIdle
    /\ ResearchIdle

NextRL == wait_if_needed \/ TickRL

SpecRL == InitRL /\ [][NextRL]_vars

InitCache ==
    /\ comp = "cache"
    /\ clock = 0
    /\ AgentIdle
    /\ ConsIdle
    /\ StepsIdle
    /\ MergeIdle
    /\ KeysIdle
    /\ CsvIdle
    /\ LookupIdle
    /\ RLIdle
    /\ CacheIdle
    /\ DedupeIdle
    /\ ScoringIdle
    /\ CategorizeIdle
    /\ ResearchIdle

NextCache ==
    \/ \E k \in CacheKeys : CacheGet(k)
    \/ \E k \in CacheKeys, c \in CacheContents, o \in SetOutcomes : CacheSet(k, c, o)
    \/ TickCache

SpecCache == InitCache /\ [][NextCache]_vars
InitDedupe ==
    /\ comp = "dedupe"
    /\ clock = 0
    /\ AgentIdle
    /\ ConsIdle
    /\ StepsIdle
    /\ MergeIdle
    /\ KeysIdle
    /\ CsvIdle
    /\ LookupIdle
    /\ RLIdle
    /\ CacheIdle
    /\ ScoringIdle
    /\ CategorizeIdle
    /\ ResearchIdle
    /\ \E n \in 1..MaxRecords : dd_input \in [1..n -> RawRecords]
    /\ dd_algo = "none"
    /\ dd_stage = "input"
    /\ dd_out = <<>>
    /\ dd_again = <<>>
    /\ dd_perm = <<>>
    /\ dd_perm_out = <<>>

NextDedupe == RunRemoveDuplicates \/ RunCleanAndDeduplicate \/ RunAgain \/ RunPermuted

SpecDedupe == InitDedupe /\ [][NextDedupe]_vars

InitScoring ==
    /\ comp = "scoring"
    /\ clock = 0
    /\ AgentIdle
    /\ ConsIdle
    /\ StepsIdle
    /\ MergeIdle
    /\ KeysIdle
    /\ CsvIdle
    /\ LookupIdle
    /\ RLIdle
    /\ CacheIdle
    /\ DedupeIdle
    /\ CategorizeIdle
    /\ ResearchIdle
    /\ \E n \in 1..MaxContacts : contacts_df \in [1..n -> ScoringContacts]
    /\ scores_data = <<>>

NextScoring == ProcessNextContact

SpecScoring == InitScoring /\ [][NextScoring]_vars

InitCategorize ==
    /\ comp = "categorize"
    /\ clock = 0
    /\ AgentIdle
    /\ ConsIdle
    /\ StepsIdle
    /\ MergeIdle
    /\ KeysIdle
    /\ CsvIdle
    /\ LookupIdle
    /\ RLIdle
    /\ CacheIdle
    /\ DedupeIdle
    /\ ScoringIdle
    /\ ResearchIdle
    /\ score_vector \in ScoreVectors
    /\ strategy = NoStrategy

NextCategorize == CategorizeContact

SpecCategorize == InitCategorize /\ [][NextCategorize]_vars

\* The pipeline on one contact record: the research of the record and the
\* scoring of the same record, in either order.
InitPipeline ==
    /\ comp = "pipeline"
    /\ clock = 0
    /\ AgentIdle
    /\ ConsIdle
    /\ StepsIdle
    /\ MergeIdle
    /\ KeysIdle
    /\ CsvIdle
    /\ LookupIdle
    /\ RLIdle
    /\ CacheIdle
    /\ DedupeIdle
    /\ CategorizeIdle
    /\ config \in Configs
    /\ contact_data \in ScenarioRecords
    /\ research_pc = "ready"
    /\ enrichment = NoEnrichment
    /\ source_outcomes = [f \in {} |-> ""]
    /\ sources_invoked = <<>>
    /\ contacts_df = <<ScoringRow(contact_data)>>
    /\ scores_data = <<>>

NextPipeline == research_single_contact \/ ProcessNextContact

SpecPipeline == InitPipeline /\ [][NextPipeline]_vars

InitResearch ==
    /\ comp = "research"
    /\ clock = 0
    /\ AgentIdle
    /\ ConsIdle
    /\ StepsIdle
    /\ MergeIdle
    /\ KeysIdle
    /\ CsvIdle
    /\ LookupIdle
    /\ RLIdle
    /\ CacheIdle
    /\ DedupeIdle
    /\ ScoringIdle
    /\ CategorizeIdle
    /\ config \in Configs
    /\ contact_data \in ResearchRows
    /\ source_outcomes \in SourceOutcomes
    /\ research_pc = "email"
    /\ enrichment = ConstructedEnrichment(contact_data)
    /\ sources_invoked = <<>>

NextResearch ==
    EmailStep \/ LinkedInStep \/ NewsStep \/ WebStep \/ AIStep \/ ConfidenceStep

SpecResearch == InitResearch /\ [][NextResearch]_vars

InitCsv ==
    /\ comp = "csv"
    /\ clock = 0
    /\ AgentIdle
    /\ ConsIdle
    /\ StepsIdle
    /\ MergeIdle
    /\ KeysIdle
    /\ RLIdle
    /\ CacheIdle
    /\ DedupeIdle
    /\ ScoringIdle
    /\ CategorizeIdle
    /\ config = AllEnabled
    /\ source_outcomes \in {AllEvidence, [AllEvidence EXCEPT !.email = "none"],
                           [AllEvidence EXCEPT !.linkedin = "raises"]}
    /\ contact_data = [f \in {} |-> ""]
    /\ research_pc = "idle"
    /\ enrichment = NoEnrichment
    /\ sources_invoked = <<>>
    /\ enrichment_ctor \in {"declared", "post_init"}
    /\ csv_rows \in CsvFrames
    /\ csv_index = 0
    /\ enriched_contacts = <<>>
    /\ temp_file = NoCsvFile
    /\ output_file = NoCsvFile
    /\ csv_pc = "start"
    /\ csv_log = {}
    /\ LookupIdle

NextCsv == ReadInputCsv \/ ProcessRow \/ SaveFinalResults \/ ReportCompleted \/ Interrupt

SpecCsv == InitCsv /\ [][NextCsv]_vars

InitLookup ==
    /\ comp = "lookup"
    /\ clock = 0
    /\ AgentIdle
    /\ ConsIdle
    /\ StepsIdle
    /\ MergeIdle
    /\ KeysIdle
    /\ CsvIdle
    /\ LookupIdle
    /\ RLIdle
    /\ CacheIdle
    /\ DedupeIdle
    /\ ScoringIdle
    /\ CategorizeIdle
    /\ ResearchIdle

NextLookup ==
    \/ scrape_url
    \/ find_emails_hunter_io
    \/ search_linkedin_profile
    \/ search_news_mentions
    \/ TickLookup

SpecLookup == InitLookup /\ [][NextLookup]_vars

InitKeys ==
    /\ comp = "keys"
    /\ clock = 0
    /\ AgentIdle
    /\ ConsIdle
    /\ StepsIdle
    /\ MergeIdle
    /\ RLIdle
    /\ CacheIdle
    /\ DedupeIdle
    /\ ScoringIdle
    /\ CategorizeIdle
    /\ ResearchIdle
    /\ CsvIdle
    /\ LookupIdle
    /\ key_store = [f \in {QueryFile(q) : q \in QuerySignatures} |-> NoWriter]
    /\ key_read = [by |-> NoWriter, wrote |-> NoWriter]

NextKeys ==
    \/ \E q \in QuerySignatures : KeyedSet(q)
    \/ \E q \in QuerySignatures : KeyedGet(q)

SpecKeys == InitKeys /\ [][NextKeys]_vars

InitMerge ==
    /\ comp = "merge"
    /\ clock = 0
    /\ AgentIdle
    /\ ConsIdle
    /\ StepsIdle
    /\ RLIdle
    /\ CacheIdle
    /\ DedupeIdle
    /\ ScoringIdle
    /\ CategorizeIdle
    /\ ResearchIdle
    /\ CsvIdle
    /\ LookupIdle
    /\ KeysIdle
    /\ existing_df \in ExistingFrames
    /\ new_profiles \in NewEmailLists
    /\ merged_df = <<>>
    /\ merge_pc = "ready"

NextMerge == merge_contacts

SpecMerge == InitMerge /\ [][NextMerge]_vars

InitSteps ==
    /\ comp = "limiter_steps"
    /\ clock = 0
    /\ AgentIdle
    /\ ConsIdle
    /\ RLIdle
    /\ CacheIdle
    /\ DedupeIdle
    /\ ScoringIdle
    /\ CategorizeIdle
    /\ ResearchIdle
    /\ CsvIdle
    /\ LookupIdle
    /\ KeysIdle
    /\ MergeIdle
    /\ StepsIdle

NextSteps == StartCall \/ MinuteCheck \/ HourCheck \/ SleepReturns \/ RecordRequest \/ TickSteps

SpecSteps == InitSteps /\ [][NextSteps]_vars

\* The event loop runs a started call on: each statement of the call is
\* taken once it can be.
SpecStepsFair ==
    SpecSteps /\ WF_vars(MinuteCheck \/ HourCheck \/ SleepReturns \/ RecordRequest)

InitConsolidate ==
    /\ comp = "consolidate"
    /\ clock = 0
    /\ AgentIdle
    /\ RLIdle
    /\ CacheIdle
    /\ DedupeIdle
    /\ ScoringIdle
    /\ CategorizeIdle
    /\ ResearchIdle
    /\ CsvIdle
    /\ LookupIdle
    /\ KeysIdle
    /\ MergeIdle
    /\ StepsIdle
    /\ cons_pc = 1
    /\ all_contacts = <<>>
    /\ master_contacts = <<>>

NextConsolidate == ProcessFile \/ FinishConsolidation

SpecConsolidate == InitConsolidate /\ [][NextConsolidate]_vars

InitAgent ==
    /\ comp = "agent"
    /\ clock = 0
    /\ RLIdle
    /\ CacheIdle
    /\ DedupeIdle
    /\ ScoringIdle
    /\ CategorizeIdle
    /\ ResearchIdle
    /\ CsvIdle
    /\ LookupIdle
    /\ KeysIdle
    /\ MergeIdle
    /\ StepsIdle
    /\ ConsIdle
    /\ agent_status = "initialising"
    /\ metrics = [messages_processed |-> 0, errors |-> 0]
    /\ last_heartbeat = 0
    /\ pm_result = NoCall

NextAgent == process_message \/ initialize \/ start \/ RunRaises \/ stop

SpecAgent == InitAgent /\ [][NextAgent]_vars

\* END-SPECS

(***************************************************************************)
(* Claims                                                                  *)
(***************************************************************************)
\* Entries of reqs inside the trailing window that ends at time T.
InWindow(reqs, T, window) == {i \in DOMAIN reqs : T - reqs[i] < window /\ reqs[i] <= T}

\* C1: the recorded timestamps never hold more than requests_per_minute entries
\* inside any trailing 60-second window, nor more than requests_per_hour
\* entries inside any trailing 3600-second window (windows ending at each
\* recorded timestamp, where the count is largest).
C1_WindowCaps ==
    comp = "rate_limiter" =>
        \A T \in Range(hour_requests) :
            /\ Cardinality(InWindow(hour_requests, T, MinuteWindow)) <= requests_per_minute
            /\ Cardinality(InWindow(hour_requests, T, HourWindow)) <= requests_per_hour

\* C2 as stated: get(k) returns exactly v when the most recent set on k was
\* set(k, v) less than 24 hours ago, and None when k was never set or 24 hours
\* or more have passed since that set.
C2_GetReturnsLastSet ==
    (comp = "cache" /\ last_op = "get") =>
        LET s == last_set[get_key]
        IN  IF s.called /\ clock - s.at < TTLHours
            THEN get_ret = s.content
            ELSE get_ret = None

\* The value with every tuple, at any depth, replaced by a list of the same items.
RECURSIVE TuplesAsListsD(_, _)
TuplesAsListsD(v, d) ==
    IF d = 0 THEN v
    ELSE [type |-> IF v.type = "tuple" THEN "list" ELSE v.type,
          val |-> v.val,
          items |-> [i \in DOMAIN v.items |-> TuplesAsListsD(v.items[i], d - 1)]]

TuplesAsLists(v) == TuplesAsListsD(v, MaxDepth)

\* C2 amended: when the most recent set on k was set(k, v) and it wrote its
\* file, get(k) returns v with tuples turned into lists if less than 24 hours
\* have passed since, and None if 24 hours or more have passed; get(k) returns
\* None when k was never set.
C2_GetReturnsLastWritten ==
    (comp = "cache" /\ last_op = "get") =>
        LET s == last_set[get_key]
        IN  /\ (~s.called) => get_ret = None
            /\ (s.called /\ s.outcome = "ok" /\ clock - s.at < TTLHours)
                   => get_ret = TuplesAsLists(s.content)
            /\ (s.called /\ s.outcome = "ok" /\ clock - s.at >= TTLHours)
                   => get_ret = None

\* A get some time after, but within 24 hours of, a set that wrote a value
\* holding a tuple: the value comes back with the tuple as a list.
C2_Witness ==
    /\ comp = "cache" /\ last_op = "get"
    /\ last_set[get_key].called /\ last_set[get_key].outcome = "ok"
    /\ clock > last_set[get_key].at
    /\ clock - last_set[get_key].at < TTLHours
    /\ get_ret = TuplesAsLists(last_set[get_key].content)
    /\ get_ret # last_set[get_key].content

\* The raw records an output stands for, whichever deduplication made it.
Survivors(out) ==
    IF dd_algo = "remove_duplicates" THEN Range(out) ELSE {RawOfRow(r) : r \in Range(out)}

\* The normalized name+organization identity of a raw record.
Identity(raw) == <<Lower(raw.name), Lower(raw.organisation)>>

\* Number of non-empty fields of a raw record.
NonEmptyCount(raw) == Cardinality({f \in RawFields : raw[f] # ""})

\* C3: after deduplication exactly one record per identity survives, and its
\* non-empty-field count is at least that of every input record of the same
\* identity.
C3_MostCompleteSurvives ==
    (comp = "dedupe" /\ dd_stage = "once") =>
        \A x \in Range(dd_input) :
            /\ Cardinality({i \in DOMAIN dd_out :
                   Identity(CHOOSE r \in Survivors(<<dd_out[i]>>) : TRUE) = Identity(x)}) = 1
            /\ \A s \in Survivors(dd_out) :
                   Identity(s) = Identity(x) => NonEmptyCount(s) >= NonEmptyCount(x)

\* C4: a second run on the output of a run keeps the same set of records.
C4_Idempotent ==
    (comp = "dedupe" /\ dd_stage = "twice") => Survivors(dd_again) = Survivors(dd_out)

\* A second run done on an output from which the first run had removed duplicates.
C4_Witness ==
    /\ comp = "dedupe" /\ dd_stage = "twice"
    /\ Len(dd_out) < Len(dd_input)
    /\ Len(dd_out) >= 2
    /\ Survivors(dd_again) = Survivors(dd_out)

\* C5: a run on any permutation of the input keeps the same set of records.
C5_OrderIndependent ==
    (comp = "dedupe" /\ dd_stage = "permuted") => Survivors(dd_perm_out) = Survivors(dd_out)

ScoreFields == {"youth_justice_relevance", "influence_score", "accessibility_score",
                "timing_score", "strategic_value", "risk_score"}

\* C6: every dimension score, the risk score and the composite priority of
\* every scored contact lies in [0,100] (tenths and thousandths here).
C6_ScoresInRange ==
    comp = "scoring" =>
        \A i \in DOMAIN scores_data :
            /\ \A f \in ScoreFields :
                   scores_data[i].scores[f] >= 0 /\ scores_data[i].scores[f] <= 1000
            /\ scores_data[i].scores.composite_priority >= 0
            /\ scores_data[i].scores.composite_priority <= 100000

\* A scored contact whose keyword hits stack beyond 100 in every dimension,
\* and one with no hit at all.
C6_Witness ==
    /\ comp = "scoring"
    /\ \E i \in DOMAIN scores_data :
          /\ scores_data[i].scores.youth_justice_relevance = 1000
          /\ scores_data[i].scores.influence_score = 1000
          /\ scores_data[i].scores.composite_priority = 100000
    /\ \E i \in DOMAIN scores_data :
          /\ scores_data[i].scores.youth_justice_relevance = 0
          /\ scores_data[i].scores.risk_score > 0

FiveDimensions == ScoreFields \ {"risk_score"}

\* C7: the composite is 0.30 relevance + 0.25 influence + 0.20 accessibility
\* + 0.15 timing + 0.10 strategic value, the weights sum to 1.0, and two
\* scored contacts that agree on the five dimensions have the same composite
\* and tier whatever their risk.
C7_CompositeIsWeightedSum ==
    comp = "scoring" =>
        /\ 30 + 25 + 20 + 15 + 10 = 100
        /\ \A i \in DOMAIN scores_data :
              LET sc == scores_data[i].scores
              IN  sc.composite_priority =
                      30 * sc.youth_justice_relevance + 25 * sc.influence_score
                      + 20 * sc.accessibility_score + 15 * sc.timing_score
                      + 10 * sc.strategic_value
        /\ \A i, j \in DOMAIN scores_data :
              (\A f \in FiveDimensions : scores_data[i].scores[f] = scores_data[j].scores[f])
                  => /\ scores_data[i].scores.composite_priority
                          = scores_data[j].scores.composite_priority
                     /\ scores_data[i].strategy.tier = scores_data[j].strategy.tier

\* Two scored contacts that agree on the five dimensions and differ in risk.
C7_Witness ==
    /\ comp = "scoring"
    /\ \E i, j \in DOMAIN scores_data :
          /\ \A f \in FiveDimensions : scores_data[i].scores[f] = scores_data[j].scores[f]
          /\ scores_data[i].scores.risk_score # scores_data[j].scores.risk_score
          /\ scores_data[i].strategy.tier = scores_data[j].strategy.tier

Tier1 == "Tier 1: Immediate Priority"
Tier2 == "Tier 2: Important Influencers"
Tier3 == "Tier 3: Network Builders"
Tier4 == "Tier 4: Long-term Cultivation"

\* 1 for the highest-priority tier, 4 for the lowest
TierRank(tier) == CHOOSE n \in 1..4 : <<Tier1, Tier2, Tier3, Tier4>>[n] = tier

Composites == {v.composite_priority : v \in ScoreVectors}

\* C8: categorize_contact assigns Tier 1 iff composite >= 80, Tier 2 iff
\* 65 <= composite < 80, Tier 3 iff 50 <= composite < 65 and Tier 4 otherwise;
\* and no ScoreVector with a lower composite gets a higher-priority tier.
C8_TierThresholds ==
    (comp = "categorize" /\ strategy # NoStrategy) =>
        LET composite == score_vector.composite_priority
        IN  /\ strategy.tier \in {Tier1, Tier2, Tier3, Tier4}
            /\ strategy.tier = Tier1 <=> composite >= 80000
            /\ strategy.tier = Tier2 <=> (65000 <= composite /\ composite < 80000)
            /\ strategy.tier = Tier3 <=> (50000 <= composite /\ composite < 65000)
            /\ strategy.tier = Tier4 <=> composite < 50000
            /\ \A lower \in Composites :
                   composite > lower => TierRank(strategy.tier) <= TierRank(Tier(lower))

\* A ScoreVector whose composite is exactly 65 was categorized.
C8_Witness ==
    /\ comp = "categorize"
    /\ strategy # NoStrategy
    /\ score_vector.composite_priority = 65000
    /\ strategy.tier = Tier2

Champions(v) == v.youth_justice_relevance >= 700 /\ v.influence_score >= 600
Gatekeepers(v) == v.influence_score >= 700
Amplifiers(v) == v.accessibility_score >= 700 /\ v.influence_score >= 500
Validators(v) == v.youth_justice_relevance >= 600
Blockers(v) == v.accessibility_score <= 400 \/ v.risk_score >= 600

\* C9: the category of every ScoreVector is the first whose rule holds in the
\* order Champions, Gatekeepers, Amplifiers, Validators, Blockers, and
\* Convincibles when none holds.
C9_FirstMatchingCategory ==
    (comp = "categorize" /\ strategy # NoStrategy) =>
        LET v == score_vector
            rules == <<Champions(v), Gatekeepers(v), Amplifiers(v), Validators(v),
                       Blockers(v), TRUE>>
            names == <<"Champions", "Gatekeepers", "Amplifiers", "Validators",
                       "Blockers", "Convincibles">>
            first == CHOOSE n \in 1..6 : rules[n] /\ \A m \in 1..(n - 1) : ~rules[m]
        IN  strategy.category = names[first]

\* A categorized ScoreVector for which the rules of Champions and of
\* Gatekeepers both hold.
C9_Witness ==
    /\ comp = "categorize"
    /\ strategy # NoStrategy
    /\ Champions(score_vector)
    /\ Gatekeepers(score_vector)
    /\ Blockers(score_vector)
    /\ strategy.category = "Champions"

\* C10: the Jane Doe record, researched with every source disabled and scored,
\* has research_confidence = 0, relevance >= 55, an influence score raised by
\* the title, and Tier 1 or Tier 2.
C10_JaneDoeScenario ==
    (/\ comp = "pipeline"
     /\ contact_data = JaneDoe
     /\ AllSourcesDisabled(config)
     /\ research_pc # "ready"
     /\ Len(scores_data) = 1) =>
        /\ research_pc = "returned"
        /\ enrichment.research_confidence = 0
        /\ scores_data[1].scores.youth_justice_relevance >= 550
        /\ scores_data[1].scores.influence_score
               > calculate_influence_score([scores_data[1].contact EXCEPT !.title = ""])
        /\ scores_data[1].strategy.tier \in {Tier1, Tier2}

\* C11: a row whose text fields are all empty is scored relevance 0,
\* influence 0, accessibility 50, composite 0.20 * 50 + 0.15 * 60 (the two
\* base values weighted), Tier 4 and Convincibles.
C11_EmptyRecord ==
    comp = "scoring" =>
        \A i \in DOMAIN scores_data :
            contacts_df[i] = EmptyContact =>
                /\ scores_data[i].scores.youth_justice_relevance = 0
                /\ scores_data[i].scores.influence_score = 0
                /\ scores_data[i].scores.accessibility_score = 500
                /\ scores_data[i].scores.composite_priority = 20 * 500 + 15 * 600
                /\ scores_data[i].strategy.tier = Tier4
                /\ scores_data[i].strategy.category = "Convincibles"

\* The empty row was scored.
C11_Witness ==
    /\ comp = "scoring"
    /\ \E i \in DOMAIN scores_data :
          /\ scores_data[i].contact = EmptyContact
          /\ scores_data[i].scores.composite_priority = 19000

\* The sections agree with the try block taken as a whole.
StepsAgreeWithTryBlock ==
    (comp = "research" /\ research_pc = "returned") =>
        enrichment = TryBlock(ConstructedEnrichment(contact_data), config, source_outcomes)

\* The research sources in their declared order, and their enable flags.
SourceOrder == <<"email", "linkedin", "news", "web", "ai">>

SourceEnabled(cfg, source) ==
    CASE source = "email" -> cfg.enable_email_finding
      [] source = "linkedin" -> cfg.enable_linkedin_research
      [] source = "news" -> cfg.enable_news_research
      [] source = "web" -> cfg.enable_web_scraping
      [] source = "ai" -> cfg.enable_ai_analysis

\* The web scrape is attempted for a contact with an organisation only.
SourceApplies(source) == source = "web" => ResearchOrganisation(contact_data) # ""

HasIdentity(row) ==
    \E f \in {"First Name", "Last Name"} : Get(row, f, "") \notin {"", NaNCell}

\* The data_sources tags of the sources that failed on every call of the run.
FailedTags(out) ==
    (IF out.email = "none" THEN {"email_patterns", "hunter_io"} ELSE {})
    \cup (IF out.linkedin \in {"none", "raises"} THEN {"linkedin"} ELSE {})

\* C13: when one source failed on every call and process_csv_file has
\* returned with the output file written, the file holds one row for every
\* input row with identity fields, and in each row the failing source is not
\* among data_sources and research_confidence is below what it would be had
\* the source returned evidence.
C13_FailingSourceStillCompletes ==
    (comp = "csv" /\ csv_pc = "returned" /\ output_file.state = "written"
        /\ FailedTags(source_outcomes) # {}) =>
        /\ Len(output_file.rows)
               = Cardinality({i \in DOMAIN csv_rows : HasIdentity(csv_rows[i])})
        /\ \A i \in DOMAIN output_file.rows :
               LET e == output_file.rows[i]
                   with_evidence == TryBlock(ConstructedEnrichment(e.original_data),
                                             config, AllEvidence)
               IN  /\ FailedTags(source_outcomes) \cap Range(e.data_sources) = {}
                   /\ e.research_confidence < with_evidence.research_confidence

\* Whether a source returned at least one evidence fragment for the contact:
\* an address, a profile, a news mention, a scraped page, an analysis.
ReturnedEvidence(source) ==
    CASE source = "email" ->
             /\ source_outcomes.email = "emails"
             /\ \A f \in {"First Name", "Last Name", "Organisation"} :
                    Get(contact_data, f, "") \notin {"", NaNCell}
      [] source = "linkedin" -> source_outcomes.linkedin # "none"
      [] source = "news" -> TRUE
      [] source = "web" ->
             source_outcomes.web # "none" /\ ResearchOrganisation(contact_data) # ""
      [] source = "ai" -> source_outcomes.ai = "ok"

EnabledSources == {source \in Range(SourceOrder) : SourceEnabled(config, source)}

SourceTag(source) ==
    CASE source = "email" -> "email_patterns"
      [] source = "linkedin" -> "linkedin"
      [] source = "news" -> "news_search"
      [] source = "web" -> "web_scraping"
      [] source = "ai" -> "ai_analysis"

NoDisabledSourceRecorded ==
    (comp = "research" /\ research_pc = "returned") =>
        \A source \in Range(SourceOrder) :
            SourceTag(source) \in Range(enrichment.data_sources)
                => SourceEnabled(config, source)

\* The completed contacts the checkpoint file holds.
Checkpointed == IF temp_file.state = "written" THEN Len(temp_file.rows) ELSE 0

\* No write of the run failed or was cut short.
WritesSucceeded ==
    /\ "Error saving CSV" \notin csv_log
    /\ temp_file.state # "partial"
    /\ output_file.state # "partial"

C17_WriteFailureIsFatal ==
    (comp = "csv" /\ "Error saving CSV" \in csv_log) =>
        /\ "Research complete! Results saved" \notin csv_log
        /\ "Research completed successfully!" \notin csv_log
        /\ csv_pc = "exit" => "Fatal error" \in csv_log

\* C18: when a run has exited on an interrupt, with no write failed before,
\* the checkpoint file holds every contact of every completed batch and
\* neither file is partly written.
C18_InterruptKeepsCheckpoint ==
    (comp = "csv" /\ csv_pc = "interrupted" /\ "Error saving CSV" \notin csv_log) =>
        /\ temp_file.state # "partial"
        /\ output_file.state # "partial"
        /\ Checkpointed >= (Len(enriched_contacts) \div BatchSize) * BatchSize

\* The network attempts of the trailing window that ends at time T.
CallsInWindow(T, window) ==
    {i \in DOMAIN net_calls : net_calls[i].at <= T /\ T - net_calls[i].at < window}

\* C19: every network attempt of a source follows a wait_if_needed
\* reservation, and no trailing minute holds more than requests_per_minute
\* attempts, no trailing hour more than requests_per_hour.
C19_OutboundCallsWithinCaps ==
    comp = "lookup" =>
        \A i \in DOMAIN net_calls :
            /\ net_calls[i].reserved
            /\ Cardinality(CallsInWindow(net_calls[i].at, MinuteWindow)) <= requests_per_minute
            /\ Cardinality(CallsInWindow(net_calls[i].at, HourWindow)) <= requests_per_hour

\* C20: a lookup made while the cache holds a fresh entry for its key makes
\* no network call and returns the cached result.
C20_CachedLookupMakesNoCall ==
    (comp = "lookup" /\ lk_last.had) =>
        lk_last.calls = 0 /\ lk_last.ret = lk_last.cached

\* C21: a lookup never reads a cache file written by a lookup with another
\* source or other query components.
C21_KeysCollisionFree ==
    (comp = "keys" /\ key_read.wrote # NoWriter) => key_read.wrote = key_read.by

IsPrefix(s, t) == Len(s) <= Len(t) /\ SubSeq(t, 1, Len(s)) = s

LadderProbes ==
    {ContactScore(0, i, a, t, 0, k) :
        i \in {0, 495, 500, 600, 695, 700, 799, 800}, a \in {400, 405, 600, 700, 800},
        t \in {600, 800}, k \in {0, 400}}

ProbeStrategies == [v \in LadderProbes |-> categorize_contact(v)]

\* C23 as stated: a vector with the accessibility of the categorized one
\* gets the same pathway, with its composite the same resource_requirement,
\* with its timing the same timing_recommendation.
C23_OwnScoreLadders ==
    (comp = "categorize" /\ strategy # NoStrategy) =>
        \A v \in LadderProbes :
            /\ v.accessibility_score = score_vector.accessibility_score
                   => ProbeStrategies[v].pathway = strategy.pathway
            /\ v.composite_priority = score_vector.composite_priority
                   => ProbeStrategies[v].resource_requirement = strategy.resource_requirement
            /\ v.timing_score = score_vector.timing_score
                   => ProbeStrategies[v].timing_recommendation = strategy.timing_recommendation

\* C23 amended: the pathway is settled by accessibility together with
\* whether influence reaches 70; resource_requirement by the composite
\* alone; timing_recommendation by timing alone.
C23_LaddersWithInfluenceRung ==
    (comp = "categorize" /\ strategy # NoStrategy) =>
        \A v \in LadderProbes :
            /\ (/\ v.accessibility_score = score_vector.accessibility_score
                /\ (v.influence_score >= 700) = (score_vector.influence_score >= 700))
                   => ProbeStrategies[v].pathway = strategy.pathway
            /\ v.composite_priority = score_vector.composite_priority
                   => ProbeStrategies[v].resource_requirement = strategy.resource_requirement
            /\ v.timing_score = score_vector.timing_score
                   => ProbeStrategies[v].timing_recommendation = strategy.timing_recommendation

\* A vector below accessibility 60 went down the influence rung, and a probe
\* with its accessibility and its composite did not.
C23_Witness ==
    /\ comp = "categorize"
    /\ strategy # NoStrategy
    /\ strategy.pathway = "Formal Request"
    /\ \E v \in LadderProbes :
           /\ v.accessibility_score = score_vector.accessibility_score
           /\ ProbeStrategies[v].pathway = "Warm Introduction"
    /\ \E v \in LadderProbes :
           /\ v # score_vector
           /\ v.composite_priority = score_vector.composite_priority

\* C26: for every contact scored by process_contacts the risk score is at
\* most 55 and the accessibility score at least 40; the risk note "High
\* reputation risk" is not produced, and a contact in Blockers has
\* accessibility exactly 40.
C26_RiskAndAccessibilityBounds ==
    comp = "scoring" =>
        \A i \in DOMAIN scores_data :
            /\ scores_data[i].scores.risk_score <= 550
            /\ scores_data[i].scores.accessibility_score >= 400
            /\ "High reputation risk" \notin Range(scores_data[i].strategy.risks)
            /\ scores_data[i].strategy.category = "Blockers"
                   => scores_data[i].scores.accessibility_score = 400

\* A contact that stacks every risk indicator and a contact in Blockers have
\* been scored.
C26_Witness ==
    /\ comp = "scoring"
    /\ \E i \in DOMAIN scores_data : scores_data[i].scores.risk_score = 550
    /\ \E i \in DOMAIN scores_data :
           /\ scores_data[i].strategy.category = "Blockers"
           /\ scores_data[i].scores.accessibility_score = 400

\* C27: for every contact scored by process_contacts the timing score lies
\* in [60, 100] and the timing recommendation is not "Long-term (3-6
\* months)".
C27_TimingNeverLongTerm ==
    comp = "scoring" =>
        \A i \in DOMAIN scores_data :
            /\ scores_data[i].scores.timing_score >= 600
            /\ scores_data[i].scores.timing_score <= 1000
            /\ scores_data[i].strategy.timing_recommendation # "Long-term (3-6 months)"

\* A contact with no timing indicator (the base score) and one whose
\* indicators pass the cap have been scored.
C27_Witness ==
    /\ comp = "scoring"
    /\ \E i \in DOMAIN scores_data :
           /\ scores_data[i].scores.timing_score = 600
           /\ scores_data[i].strategy.timing_recommendation = "Short-term (1-2 months)"
    /\ \E i \in DOMAIN scores_data :
           /\ scores_data[i].scores.timing_score = 1000
           /\ scores_data[i].strategy.timing_recommendation = "Immediate (1-2 weeks)"

\* C28: the campaign segments of a categorized ScoreVector never hold "Media
\* Outreach Campaign", and its approaches hold "Media Collaboration" exactly
\* when influence is at least 50.
C28_MediaRules ==
    (comp = "categorize" /\ strategy # NoStrategy) =>
        /\ "Media Outreach Campaign" \notin Range(strategy.campaign_segments)
        /\ "Media Collaboration" \in Range(strategy.approach)
               <=> score_vector.influence_score >= 500

\* A vector with influence exactly 50 was categorized and got Media
\* Collaboration.
C28_Witness ==
    /\ comp = "categorize"
    /\ strategy # NoStrategy
    /\ score_vector.influence_score = 500
    /\ "Media Collaboration" \in Range(strategy.approach)

\* C24: every row merge_contacts removed has a retained row with the same,
\* non-empty e-mail address.
C24_MergeOnlySameEmail ==
    (comp = "merge" /\ merge_pc = "merged") =>
        \A i \in DOMAIN Concatenated :
            Concatenated[i] \notin Range(merged_df) =>
                /\ ~Concatenated[i].email.na
                /\ Concatenated[i].email.s # ""
                /\ \E j \in DOMAIN merged_df : merged_df[j].email = Concatenated[i].email

\* A call of wait_if_needed is under way.
InCall == rl_pc \notin {"idle", "returned"}

\* C25: every started call of wait_if_needed returns; the step on which it
\* returns comes after both the per-minute and the per-hour check and
\* appends exactly one timestamp to each list; and until then the call
\* records nothing.
C25_CallReturnsAfterBothChecks ==
    /\ (comp = "limiter_steps" /\ InCall) ~> (rl_pc = "returned")
    /\ [][(comp = "limiter_steps" /\ InCall) =>
             IF rl_pc' = "returned"
             THEN /\ rl_checks = {"minute_check", "hour_check"}
                  /\ Len(minute_requests') = Len(minute_requests) + 1
                  /\ Len(hour_requests') = Len(hour_requests) + 1
                  /\ SubSeq(minute_requests', 1, Len(minute_requests)) = minute_requests
                  /\ SubSeq(hour_requests', 1, Len(hour_requests)) = hour_requests
             ELSE UNCHANGED rlVars]_vars

\* A call that slept on the per-minute limit and one that slept on the
\* per-hour limit have returned.
C25_Witness ==
    /\ comp = "limiter_steps"
    /\ rl_pc = "returned"
    /\ rl_slept
    /\ rl_calls > requests_per_hour

\* C29: in the consolidated master contact list every contact whose
\* indigenous_affiliation is 'Yes' has engagement_priority 'High', whichever
\* of the five file processors produced it.
C29_IndigenousYesIsHighPriority ==
    (comp = "consolidate") =>
        \A i \in DOMAIN master_contacts :
            master_contacts[i].indigenous_affiliation = "Yes"
                => master_contacts[i].engagement_priority = "High"

\* A step of process_message: the call counter moves.
ProcessMessageStep == comp = "agent" /\ pm_result'.call # pm_result.call

\* What every call of process_message does to the counters and the status:
\* messages_processed rises by one, errors never exceeds it, the status
\* stays.
CountersOfCall ==
    /\ metrics'.messages_processed = metrics.messages_processed + 1
    /\ metrics'.errors <= metrics'.messages_processed
    /\ agent_status' = agent_status

\* C30 as stated: every call of process_message returns an AgentResponse
\* with the message's conversation_id, success = true when _handle_message
\* returned and false when it raised; messages_processed rises by one per
\* call and errors by one per call whose handler raised; errors never
\* exceeds messages_processed and the status stays.
C30_NeverPropagates ==
    [][ProcessMessageStep =>
          /\ pm_result'.returned
          /\ pm_result'.response.conversation_id = pm_result'.message.conversation_id
          /\ pm_result'.response.success = (pm_result'.handler.kind = "returned")
          /\ metrics'.errors =
                 metrics.errors + (IF pm_result'.handler.kind = "returned" THEN 0 ELSE 1)
          /\ CountersOfCall]_vars

\* C30, amended: a call of process_message returns an AgentResponse unless
\* the handler ended with an exception that is no Exception (cancellation),
\* which passes through.  A returned response carries the message's
\* conversation_id; success is true exactly when the handler returned data
\* from which the response could be built (a dict whose content, if any,
\* is a string), false when the handler raised or its data was rejected.
\* messages_processed rises by one per call, errors by one per call that
\* returns success = false; errors never exceeds messages_processed and the
\* status stays.
C30_CatchesExceptionsOnly ==
    [][ProcessMessageStep =>
          LET handler == pm_result'.handler
              response == pm_result'.response
          IN  /\ pm_result'.returned = (handler.kind # "cancelled")
              /\ pm_result'.returned =>
                    /\ response.conversation_id = pm_result'.message.conversation_id
                    /\ response.success =
                           (handler.kind = "returned"
                              /\ handler.data \in {"content: str", "no content key"})
              /\ metrics'.errors =
                     metrics.errors + (IF pm_result'.returned /\ ~response.success THEN 1 ELSE 0)
              /\ CountersOfCall]_vars

\* The last of MaxMessages calls: its handler returned a None content and
\* the call came back as a failure; at least two earlier calls counted no
\* error; the agent is running.
C30_Witness ==
    /\ comp = "agent"
    /\ pm_result.handler = [kind |-> "returned", data |-> "content: None"]
    /\ pm_result.returned
    /\ ~pm_result.response.success
    /\ pm_result.call = MaxMessages
    /\ metrics.errors \in 1..(MaxMessages - 2)
    /\ agent_status = "running"

====
